---- MODULE Spec2Model ----
(***************************************************************************)
(* A model of poing-core's MusicGen pipeline (src/poing-core/src/          *)
(* musicgen.rs): MusicGenPipeline::generate as a state machine whose       *)
(* steps are the model invocations and the iterations of the decoder loop. *)
(*                                                                         *)
(* Tensors that the code only moves around (hidden states, key/value cache *)
(* entries) are symbolic: a tensor is named by the invocation and output   *)
(* that produced it, plus its sequence length.  Token ids are integers.    *)
(* Rows, columns, codebooks and layers are 0-indexed as in the source.     *)
(*                                                                         *)
(* Spec is a whole generate call.  SessionSpec is one call after another,  *)
(* CancelSpec a call whose caller may ask it to stop.  UndelaySpec,        *)
(* GuidanceSpec and SamplerSpec run the undelay stage, the guidance        *)
(* combination and top_k_sample alone, as functions of their inputs, and   *)
(* ScenarioSpec runs the grid and undelay stages with MAX_LENGTH and       *)
(* NUM_CODEBOOKS as parameters.  RingSpec is the RingBuffer of             *)
(* poing-core/src/audio_buffer.rs.  AppSpec is a front end                 *)
(* (poing-editor/src/model.rs or poing-gui/src/lib.rs) with the worker     *)
(* threads it spawns, over the SharedState of poing-core/src/lib.rs, and   *)
(* SelectionSpec the editor's model list alone, with the editor window     *)
(* closed and reopened.  RecordingSpec, AudioSpec (AudioFairSpec with the  *)
(* host's thread scheduled) and LockSpec are the plugin of                 *)
(* poing-plugin/src/lib.rs beside the editor, statement by statement with  *)
(* the mutexes each thread holds.                                          *)
(***************************************************************************)
EXTENDS Integers, Sequences, FiniteSets, TLC

(* ---------------- program constants (musicgen.rs:11-19) ---------------- *)
NUM_CODEBOOKS == 4
BOS_TOKEN == 2048
PAD_TOKEN == 2048

(* ---------------- bounds of the model ---------------------------------- *)
\* MAX_LENGTH is 1500 and NUM_LAYERS is 24 in the source; the loops over
\* them are uniform, so the model runs them at a small size.  MAX_LENGTH
\* must exceed NUM_CODEBOOKS for aligned_len to be positive.
MAX_LENGTH == 5
NUM_LAYERS == 2
\* The tokenizer appends an end-of-sequence id, so an encoding holds at
\* least one token; the model takes prompts of these token counts.
TextLens == {1, 2}

\* The token ids the sampler returns in the model: indices into the logits
\* vector (0 is also the silence id undelay maps padding to).
SampleSpace == {0, 5}

VARIABLES
    pc,                     \* where generate is: start, loop, decode, done, error
    text_seq_len,           \* musicgen.rs:75
    encoder_hidden_states,  \* musicgen.rs:103
    encoder_attention_mask, \* musicgen.rs:109
    all_tokens,             \* musicgen.rs:124, the delay-pattern grid
    decoder_cache,          \* musicgen.rs:132, self-attention cache
    encoder_cache,          \* musicgen.rs:133, cross-attention cache
    next_tokens,            \* musicgen.rs:154
    step,                   \* musicgen.rs:159, the loop counter
    sampled,                \* musicgen.rs:259, the last step's samples
    audio_codes_flat,       \* musicgen.rs:299
    result,                 \* what generate returned
    cause,                  \* the error an Err result carries: the invocation that failed
    writes,                 \* per grid cell, the assignments made by the loop
    sampled_at,             \* per step, the token top_k_sample returned for each
                            \* codebook that was active at that step
    dec_in,                 \* inputs of the latest decoder.run (musicgen.rs:162-208)
    dec_out,                \* outputs of the latest decoder.run (musicgen.rs:210)
    events,                 \* model invocations, cache updates and progress
                            \* notifications of the call, in order
    \* Step 6 of generate (undelay, musicgen.rs:294-309) on its own, as a
    \* function of the grid and its length:
    u_pc,                   \* input, done
    u_len,                  \* total_seq_len
    u_grid,                 \* all_tokens
    u_codes,                \* audio_codes_flat
    \* The callers of generate:
    calls,                  \* the calls of generate that have returned
    cancel_at,              \* the step at which the caller asked to stop, or -1
    \* The plugin's front end and its generation workers
    \* (poing-editor/src/model.rs, poing-gui/src/lib.rs, poing-core/src/lib.rs):
    frontend,               \* which front end the build has: editor, gui
    prompt,                 \* the prompt field of the front end
    model_paths,            \* SharedState.model_paths
    model_path,             \* SharedState.model_path (Option)
    selected_model_index,   \* PoingModel.selected_model_index
    model_names,            \* PoingModel.model_names
    selected_model_name,    \* PoingModel.selected_model_name
    generation_state,       \* SharedState.generation_state
    progress,               \* SharedState.progress
    generated_audio,        \* SharedState.generated_audio (Option)
    is_generating,          \* PoingModel.is_generating
    was_generating,         \* PoingModel.was_generating
    ui_pc,                  \* the UI thread: idle, or polling with the
                            \* generation_state lock held (model.rs:100)
    ticks,                  \* TimerTick events emitted and not yet handled
    workers,                \* the generation threads
    \* Classifier-free guidance (musicgen.rs:248-257) on its own, as a
    \* function of the logits of one step and of the scale:
    g_pc,                   \* input, done
    g_logits,               \* logits_3d: per batch row, a value per vocabulary entry
    g_scale,                \* the guidance scale
    g_cfg,                  \* cfg_logits
    \* top_k_sample (musicgen.rs:328-345) on its own, invoked twice on the
    \* same arguments:
    s_pc,                   \* input, once, twice
    s_logits,               \* logits
    s_k,                    \* k
    s_rng,                  \* the state of the generator handed to each invocation
    s_order,                \* what sort_unstable_by makes of `indexed` in this build
    s_tokens,               \* what the invocations returned, in order
    \* RingBuffer (audio_buffer.rs):
    rb_pc,                  \* idle, or live once RingBuffer::new has returned
    rb_buffer,              \* RingBuffer.buffer
    rb_write_pos,           \* RingBuffer.write_pos
    rb_len,                 \* RingBuffer.len
    rb_written,             \* the samples written since creation or the last clear
    rb_cleared,             \* clear has been called
    rb_fresh,               \* a buffer created when clear was last called and
                            \* given the same writes since
    \* generate with other values of MAX_LENGTH and NUM_CODEBOOKS, on a
    \* decoder whose logits make the sampler return one token:
    sc_pc,                  \* loop, decode, done
    sc_max_length,          \* MAX_LENGTH
    sc_num_codebooks,       \* NUM_CODEBOOKS
    sc_token,               \* the token top_k_sample returns
    sc_grid,                \* all_tokens, conditional rows
    sc_step,                \* step
    sc_codes,               \* the audio_codes tensor encodec_decode is run on
    \* The plugin beside the editor (poing-plugin/src/lib.rs,
    \* poing-editor/src/model.rs): the threads, the mutexes they take and
    \* the recording.
    holder,                 \* per mutex, the thread that holds it, or none
    th,                     \* per thread, the handler it runs, the step it
                            \* is at and the handler's locals
    is_recording,           \* SharedState.is_recording (AtomicBool)
    recorded_audio,         \* SharedState.recorded_audio
    ring_buffer,            \* Poing.ring_buffer
    selected_model_path,    \* PoingParams.selected_model_path (persisted)
    rec_epoch,              \* how many times recording was started
    rec_published           \* the recording during which process last stored
                            \* recorded_audio, 0 when the editor stored it last

generate_vars ==
    <<pc, text_seq_len, encoder_hidden_states, encoder_attention_mask,
      all_tokens, decoder_cache, encoder_cache, next_tokens, step,
      sampled, audio_codes_flat, result, cause, writes, sampled_at, dec_in,
      dec_out, events>>

undelay_vars == <<u_pc, u_len, u_grid, u_codes>>

caller_vars == <<calls, cancel_at>>

app_vars ==
    <<frontend, prompt, model_paths, model_path, selected_model_index,
      generation_state, progress, generated_audio, is_generating,
      was_generating, ui_pc, ticks, workers, model_names, selected_model_name>>

guidance_vars == <<g_pc, g_logits, g_scale, g_cfg>>

sampler_vars == <<s_pc, s_logits, s_k, s_rng, s_order, s_tokens>>

ring_vars ==
    <<rb_pc, rb_buffer, rb_write_pos, rb_len, rb_written, rb_cleared, rb_fresh>>

scenario_vars ==
    <<sc_pc, sc_max_length, sc_num_codebooks, sc_token, sc_grid, sc_step, sc_codes>>

plugin_vars ==
    <<holder, th, is_recording, recorded_audio, ring_buffer,
      selected_model_path, rec_epoch, rec_published>>

\* The functions, types and threads modelled on their own.
library_vars == <<sampler_vars, ring_vars, scenario_vars, plugin_vars>>

\* What no step of a front end or of a worker touches.
outside_frontend ==
    <<generate_vars, undelay_vars, caller_vars, guidance_vars, library_vars>>

\* What a step that is not a handler of the model selection leaves alone.
outside_app == <<outside_frontend, model_names, selected_model_name>>

\* What a step of generate leaves alone.
aside_vars == <<undelay_vars, caller_vars, app_vars, guidance_vars, library_vars>>

vars == <<generate_vars, aside_vars>>

(* ---------------- shapes ------------------------------------------------ *)
total_seq_len == MAX_LENGTH
total_codebook_rows == 2 * NUM_CODEBOOKS
\* Mutant: the loop runs once per column instead of once per generated column.
NumGenStepsPerColumn == total_seq_len
num_gen_steps == total_seq_len - 1
\* musicgen.rs:298, for a grid of n columns
AlignedLen(n) == n - 1 - (NUM_CODEBOOKS - 1)
aligned_len == AlignedLen(total_seq_len)

Rows == 0 .. total_codebook_rows - 1
Cols == 0 .. total_seq_len - 1
Codebooks == 0 .. NUM_CODEBOOKS - 1
Layers == 0 .. NUM_LAYERS - 1
KV == {"key", "value"}

\* The cache entry "past_key_values.<layer>.<family>.<kv>" and the output
\* "present.<layer>.<family>.<kv>" are both named <<layer, family, kv>>.
DecoderKeys == {<<l, "decoder", kv>> : l \in Layers, kv \in KV}
EncoderKeys == {<<l, "encoder", kv>> : l \in Layers, kv \in KV}

\* ArrayD::zeros(IxDyn(&[batch_size, NUM_HEADS, 0, HEAD_DIM]))
ZeroCacheTensor == [origin |-> "zeros", step |-> 0, name |-> <<0, "", "">>, len |-> 0]

\* The decoder model, an opaque callable: the output "present.<name>" of
\* invocation s.  A self-attention present holds the past plus one
\* timestep, a cross-attention present one entry per encoder position.
DecoderRun(inputs, s) ==
    [k \in DecoderKeys \cup EncoderKeys |->
        [origin |-> "present", step |-> s, name |-> k,
         len |-> IF k[2] = "decoder" THEN inputs.past[k].len + 1
                 ELSE Len(inputs.encoder_attention_mask[1])]]

(* ---------------- ghost records ---------------------------------------- *)
NoCall == [step |-> -1, use_cache_branch |-> FALSE, input_ids |-> <<>>,
           encoder_hidden_states |-> <<>>, encoder_attention_mask |-> <<>>,
           past |-> <<>>]

Event(ev, s, num, den, ok) == [ev |-> ev, step |-> s, num |-> num, den |-> den, ok |-> ok]
RunEvent(model, s, ok) == Event(model, s, 0, 1, ok)
CacheEvent(family, s) == Event(family, s, 0, 1, TRUE)

\* Mutant: the fraction counts the step just completed.
ProgressValueAfter(s) == [num |-> s + 1, den |-> num_gen_steps]

\* progress_callback(step as f32 / num_gen_steps as f32): the value as the
\* fraction num/den (f32 division is correctly rounded, hence monotone).
ProgressValue(s) == [num |-> s, den |-> num_gen_steps]
ProgressEvent(p) == Event("progress", -1, p.num, p.den, TRUE)

(* ---------------- Init -------------------------------------------------- *)
\* No stand-alone undelay is under way.
UndelayIdle ==
    /\ u_pc = "idle"
    /\ u_len = 0
    /\ u_grid = <<>>
    /\ u_codes = <<>>

GenerateInit ==
    /\ pc = "start"
    /\ text_seq_len = 0
    /\ encoder_hidden_states = <<>>
    /\ encoder_attention_mask = <<>>
    /\ all_tokens = <<>>
    /\ decoder_cache = <<>>
    /\ encoder_cache = <<>>
    /\ next_tokens = <<>>
    /\ step = 0
    /\ sampled = <<>>
    /\ audio_codes_flat = <<>>
    /\ result = "none"
    /\ cause = ""
    /\ writes = <<>>
    /\ sampled_at = <<>>
    /\ dec_in = NoCall
    /\ dec_out = <<>>
    /\ events = <<>>

\* The first call, and nobody has asked it to stop.
CallerInit ==
    /\ calls = 0
    /\ cancel_at = -1

\* generation_state values; `by` records who assigned the value (0 the UI
\* thread or the constructor, w > 0 the worker w).
GenState(tag, msg, by) == [tag |-> tag, msg |-> msg, by |-> by]

\* The threads std::thread::spawn can create in the model.
Workers == {1, 2}

NoWorker == [pc |-> "unborn", prompt |-> "", n |-> 0, sets |-> 0]

\* No front end is running.
AppIdle ==
    /\ frontend = "none"
    /\ prompt = ""
    /\ model_paths = <<>>
    /\ model_path = "None"
    /\ selected_model_index = 0
    /\ model_names = <<>>
    /\ selected_model_name = ""
    /\ generation_state = GenState("Idle", "", 0)
    /\ progress = [num |-> 0, den |-> 1]
    /\ generated_audio = 0
    /\ is_generating = FALSE
    /\ was_generating = FALSE
    /\ ui_pc = "idle"
    /\ ticks = 0
    /\ workers = [w \in Workers |-> NoWorker]

\* No stand-alone guidance combination is under way.
GuidanceIdle ==
    /\ g_pc = "idle"
    /\ g_logits = <<>>
    /\ g_scale = 0
    /\ g_cfg = <<>>

\* No stand-alone top_k_sample is under way.
SamplerIdle ==
    /\ s_pc = "idle"
    /\ s_logits = <<>>
    /\ s_k = 0
    /\ s_rng = 0
    /\ s_order = <<>>
    /\ s_tokens = <<>>

\* No RingBuffer exists.
RingIdle ==
    /\ rb_pc = "idle"
    /\ rb_buffer = <<>>
    /\ rb_write_pos = 0
    /\ rb_len = 0
    /\ rb_written = <<>>
    /\ rb_cleared = FALSE
    /\ rb_fresh = <<>>

\* No generate with other constants is under way.
ScenarioIdle ==
    /\ sc_pc = "idle"
    /\ sc_max_length = 0
    /\ sc_num_codebooks = 0
    /\ sc_token = 0
    /\ sc_grid = <<>>
    /\ sc_step = 0
    /\ sc_codes = <<>>

\* The mutexes of SharedState (poing-core/src/lib.rs:22-34,
\* poing-plugin/src/lib.rs:102,109) and of PoingParams (lib.rs:18).
Mutexes ==
    {"prompt", "model_path", "generation_state", "progress", "generated_audio",
     "recorded_audio", "sample_rate", "model_paths", "host_tempo",
     "host_time_sig", "selected_model_path"}

\* The UI thread of the editor, the host thread that calls initialize and
\* process (both take &mut self, so the host never runs two at once), and
\* the thread start_generation spawns.
Threads == {"gui", "host", "worker"}

Resting == [prog |-> "idle", i |-> 0, loc |-> 0]

\* No plugin is loaded.
PluginIdle ==
    /\ holder = [m \in Mutexes |-> "none"]
    /\ th = [t \in Threads |-> Resting]
    /\ is_recording = FALSE
    /\ recorded_audio = <<>>
    /\ ring_buffer = <<>>
    /\ selected_model_path = "None"
    /\ rec_epoch = 0
    /\ rec_published = 0

LibraryIdle == SamplerIdle /\ RingIdle /\ ScenarioIdle /\ PluginIdle

Init ==
    GenerateInit /\ UndelayIdle /\ CallerInit /\ AppIdle /\ GuidanceIdle /\ LibraryIdle

\* Leaving generate drops every local of the call.
DropLocals ==
    /\ text_seq_len' = 0
    /\ encoder_hidden_states' = <<>>
    /\ encoder_attention_mask' = <<>>
    /\ all_tokens' = <<>>
    /\ decoder_cache' = <<>>
    /\ encoder_cache' = <<>>
    /\ next_tokens' = <<>>
    /\ step' = 0
    /\ sampled' = <<>>
    /\ audio_codes_flat' = <<>>
    /\ writes' = <<>>
    /\ sampled_at' = <<>>

\* Mutant: generate tells the callback 1.0 on its way out with an error.
FailAfterReport(model, s) ==
    /\ pc' = "error"
    /\ result' = "Err"
    /\ cause' = model
    /\ events' = events \o <<RunEvent(model, s, FALSE),
                             ProgressEvent([num |-> 1, den |-> 1])>>
    /\ DropLocals

\* Mutant: the error of a failed invocation is swallowed and generate goes on.
FailSwallowed(model, s) ==
    /\ events' = Append(events, RunEvent(model, s, FALSE))
    /\ UNCHANGED <<pc, result, cause, text_seq_len, encoder_hidden_states,
                   encoder_attention_mask, all_tokens, decoder_cache,
                   encoder_cache, next_tokens, step, sampled,
                   audio_codes_flat, writes, sampled_at>>

\* `?` on a failed run (musicgen.rs:91, 210, 319): generate returns the
\* error of invocation `model` at once.
Fail(model, s) ==
    /\ pc' = "error"
    /\ result' = "Err"
    /\ cause' = model
    /\ events' = Append(events, RunEvent(model, s, FALSE))
    /\ DropLocals

(* ---------------- steps 1-5 set-up (musicgen.rs:62-157) ----------------- *)
\* Mutant: the grid is allocated zero-filled.
InitGridZeros ==
    [r \in Rows |-> [c \in Cols |-> IF c = 0 THEN BOS_TOKEN ELSE 0]]

\* Array2::from_elem(.., PAD_TOKEN), then column 0 <- BOS_TOKEN
InitGrid ==
    [r \in Rows |-> [c \in Cols |-> IF c = 0 THEN BOS_TOKEN ELSE PAD_TOKEN]]

\* Mutant: a later call starts from the cache the call before it left.
InitDecoderCacheCarried ==
    [k \in DecoderKeys |->
        IF calls = 0 THEN ZeroCacheTensor
        ELSE [origin |-> "present", step |-> num_gen_steps - 1, name |-> k,
              len |-> num_gen_steps]]

\* musicgen.rs:131-152: both caches are fresh maps of zero-length tensors
InitDecoderCache == [k \in DecoderKeys |-> ZeroCacheTensor]
InitEncoderCache == [k \in EncoderKeys |-> ZeroCacheTensor]
InitNextTokens == [r \in Rows |-> BOS_TOKEN]

\* concatenate(Axis(0), [cond, zeros]) for the hidden states and the mask
CondHidden(n) == [origin |-> "last_hidden_state", len |-> n]
\* Mutant: the unconditional half is the text encoder's output for the empty
\* prompt (its end-of-sequence token alone).
UncondHiddenEncoded(n) == [origin |-> "last_hidden_state", len |-> 1]
UncondHidden(n) == [origin |-> "zeros", len |-> n]
CondMask(n) == [i \in 1 .. n |-> 1]
UncondMask(n) == [i \in 1 .. n |-> 0]

Setup ==
    /\ pc = "start"
    /\ UNCHANGED aside_vars
    /\ \E n \in TextLens, ok \in BOOLEAN :
        IF ok
        THEN /\ pc' = "loop"
             /\ text_seq_len' = n
             /\ encoder_hidden_states' = <<CondHidden(n), UncondHidden(n)>>
             /\ encoder_attention_mask' = <<CondMask(n), UncondMask(n)>>
             /\ all_tokens' = InitGrid
             /\ decoder_cache' = InitDecoderCache
             /\ encoder_cache' = InitEncoderCache
             /\ next_tokens' = InitNextTokens
             /\ step' = 0
             /\ writes' = [r \in Rows |-> [c \in Cols |-> 0]]
             /\ events' = Append(events, RunEvent("text_encoder", -1, TRUE))
             /\ UNCHANGED <<sampled, audio_codes_flat, result, cause, sampled_at,
                            dec_in, dec_out>>
        ELSE /\ Fail("text_encoder", -1)
             /\ UNCHANGED <<dec_in, dec_out>>

(* ---------------- one iteration of the loop (musicgen.rs:159-290) ------- *)
\* Mutant: the cache branch is taken at every step.
UseCacheAlways(s) == TRUE

UseCache(s) == s > 0

DecoderInputs(s) ==
    [step |-> s,
     use_cache_branch |-> UseCache(s),
     input_ids |-> next_tokens,
     encoder_hidden_states |-> encoder_hidden_states,
     encoder_attention_mask |-> encoder_attention_mask,
     past |-> [k \in DecoderKeys \cup EncoderKeys |->
                 IF k \in DecoderKeys THEN decoder_cache[k] ELSE encoder_cache[k]]]

\* Mutant: only the key entries are replaced.
UpdateDecoderCacheKeysOnly(cache, outputs) ==
    [k \in DOMAIN cache |-> IF k[3] = "key" THEN outputs[k] ELSE cache[k]]

\* musicgen.rs:215-228
UpdateDecoderCache(cache, outputs) == [k \in DOMAIN cache |-> outputs[k]]

\* Mutant: the cross-attention cache is refreshed at every step.
EncoderCacheUpdatedAlways(use_cache) == TRUE

\* musicgen.rs:231: if !use_cache
EncoderCacheUpdated(use_cache) == ~use_cache

\* musicgen.rs:231-246
UpdateEncoderCache(cache, outputs, use_cache) ==
    IF EncoderCacheUpdated(use_cache) THEN [k \in DOMAIN cache |-> outputs[k]] ELSE cache

\* Mutant: a row gets the token of the codebook after its own.
SampledRotated(tok) == [r \in Rows |-> tok[(r + 1) % NUM_CODEBOOKS]]

\* Mutant: the unconditional half keeps the PAD_TOKEN the vector starts with.
SampledUnmirrored(tok) ==
    [r \in Rows |-> IF r < NUM_CODEBOOKS THEN tok[r] ELSE PAD_TOKEN]

\* musicgen.rs:259-266: tok[cb] is what top_k_sample returned for codebook cb
Sampled(tok) == [r \in Rows |-> tok[r % NUM_CODEBOOKS]]

\* What top_k_sample returned at step s (musicgen.rs:262-263), for the
\* codebooks whose delay has passed (s >= cb); -1 stands for a token of a
\* codebook still inactive, which the loop discards.
TokensOfStep(tok, s) == [cb \in Codebooks |-> IF s >= cb THEN tok[cb] ELSE -1]

\* Mutant: step s writes column s.
PosNoShift(s) == s

\* musicgen.rs:270: let pos = step + 1
Pos(s) == s + 1

\* Mutant: every row is written, whatever its codebook's delay.
AssignedCellsNoDelay(pos) ==
    IF pos < total_seq_len THEN {<<r, pos>> : r \in Rows} ELSE {}

\* musicgen.rs:271-280: the cells <<row, column>> an iteration assigns
AssignedCells(pos) ==
    IF pos < total_seq_len
    THEN {<<r, pos>> : r \in {q \in Rows : pos > q % NUM_CODEBOOKS}}
    ELSE {}

\* Mutant: the sampled token is written into every row of the column.
WriteColumnThrough(grid, pos, samp) ==
    [r \in Rows |-> [c \in Cols |->
        IF c = pos /\ pos < total_seq_len THEN samp[r] ELSE grid[r][c]]]

\* musicgen.rs:277: all_tokens[[r, pos]] = sampled[r]
WriteColumn(grid, pos, samp) ==
    [r \in Rows |-> [c \in Cols |->
        IF <<r, c>> \in AssignedCells(pos) THEN samp[r] ELSE grid[r][c]]]

CountWrites(w, pos) ==
    [r \in Rows |-> [c \in Cols |->
        IF <<r, c>> \in AssignedCells(pos) THEN w[r][c] + 1 ELSE w[r][c]]]

\* Mutant: the next input is the column before the one just written.
NextInputPreviousColumn(old, grid, pos) ==
    IF pos < total_seq_len THEN [r \in Rows |-> grid[r][pos - 1]] ELSE old

\* musicgen.rs:283-286
NextInput(old, grid, pos) ==
    IF pos < total_seq_len THEN [r \in Rows |-> grid[r][pos]] ELSE old

\* Mutant: the iteration invokes the sequence model a second time.
StepEventsRunTwice(s, use_cache) ==
    <<RunEvent("decoder", s, TRUE), RunEvent("decoder", s, TRUE),
      CacheEvent("decoder_cache", s)>>
    \o (IF EncoderCacheUpdated(use_cache)
        THEN <<CacheEvent("encoder_cache", s)>> ELSE <<>>)
    \o <<ProgressEvent(ProgressValue(s))>>

\* Mutant: the callback is invoked at the top of the iteration.
StepEventsProgressFirst(s, use_cache) ==
    <<ProgressEvent(ProgressValue(s)),
      RunEvent("decoder", s, TRUE), CacheEvent("decoder_cache", s)>>
    \o (IF EncoderCacheUpdated(use_cache)
        THEN <<CacheEvent("encoder_cache", s)>> ELSE <<>>)

\* What a successful iteration does that the caller or the models can
\* see, in program order: the run (musicgen.rs:210), the self-attention
\* cache update (215-228), the cross-attention cache update (231-246), the
\* progress callback (289).
StepEvents(s, use_cache) ==
    <<RunEvent("decoder", s, TRUE), CacheEvent("decoder_cache", s)>>
    \o (IF EncoderCacheUpdated(use_cache)
        THEN <<CacheEvent("encoder_cache", s)>> ELSE <<>>)
    \o <<ProgressEvent(ProgressValue(s))>>

DecoderStep ==
    /\ pc = "loop"
    /\ UNCHANGED aside_vars
    /\ step < num_gen_steps
    /\ LET inputs == DecoderInputs(step)
           outputs == DecoderRun(inputs, step)
           pos == Pos(step)
       IN  \/ \E tok \in [Codebooks -> SampleSpace] :
               LET samp == Sampled(tok)
                   grid == WriteColumn(all_tokens, pos, samp)
               IN  /\ dec_in' = inputs
                   /\ dec_out' = outputs
                   /\ decoder_cache' = UpdateDecoderCache(decoder_cache, outputs)
                   /\ encoder_cache' = UpdateEncoderCache(encoder_cache, outputs,
                                                          inputs.use_cache_branch)
                   /\ sampled' = samp
                   /\ all_tokens' = grid
                   /\ writes' = CountWrites(writes, pos)
                   /\ sampled_at' = Append(sampled_at, TokensOfStep(tok, step))
                   /\ next_tokens' = NextInput(next_tokens, grid, pos)
                   /\ events' = events \o StepEvents(step, inputs.use_cache_branch)
                   /\ step' = step + 1
                   /\ UNCHANGED <<pc, text_seq_len, encoder_hidden_states,
                                  encoder_attention_mask, audio_codes_flat, result,
                                  cause>>
           \* self.decoder.run(inputs)? fails: generate returns the error
           \/ /\ Fail("decoder", step)
              /\ dec_in' = inputs
              /\ dec_out' = <<>>

(* ---------------- after the loop (musicgen.rs:292-309) ------------------ *)
\* Mutant: the source column leaves out the beginning-of-sequence column.
UndelayNoBosColumn(grid, n) ==
    [i \in 0 .. NUM_CODEBOOKS * AlignedLen(n) - 1 |->
        LET cb == i \div AlignedLen(n)
            t == i % AlignedLen(n)
            src_col == cb + t
        IN  IF src_col < n
            THEN IF grid[cb][src_col] = PAD_TOKEN THEN 0 ELSE grid[cb][src_col]
            ELSE 0]

\* musicgen.rs:298-309 on a grid of n columns: the entry
\* audio_codes_flat[cb * aligned_len + t] for every cb and t
Undelay(grid, n) ==
    [i \in 0 .. NUM_CODEBOOKS * AlignedLen(n) - 1 |->
        LET cb == i \div AlignedLen(n)
            t == i % AlignedLen(n)
            src_col == 1 + cb + t
        IN  IF src_col < n
            THEN IF grid[cb][src_col] = PAD_TOKEN THEN 0 ELSE grid[cb][src_col]
            ELSE 0]

FinishLoop ==
    /\ pc = "loop"
    /\ UNCHANGED aside_vars
    /\ step = num_gen_steps
    /\ pc' = "decode"
    /\ events' = Append(events, ProgressEvent([num |-> 1, den |-> 1]))
    /\ audio_codes_flat' = Undelay(all_tokens, total_seq_len)
    /\ UNCHANGED <<text_seq_len, encoder_hidden_states, encoder_attention_mask,
                   all_tokens, decoder_cache, encoder_cache, next_tokens, step,
                   sampled, result, cause, writes, sampled_at, dec_in, dec_out>>

(* ---------------- step 7, EnCodec decode (musicgen.rs:311-324) ---------- *)
EncodecDecode ==
    /\ pc = "decode"
    /\ UNCHANGED aside_vars
    /\ \/ /\ pc' = "done"
          /\ result' = "Ok"
          /\ events' = Append(events, RunEvent("encodec_decode", -1, TRUE))
          /\ DropLocals
          /\ UNCHANGED cause
       \/ Fail("encodec_decode", -1)
    /\ UNCHANGED <<dec_in, dec_out>>

Next == Setup \/ DecoderStep \/ FinishLoop \/ EncodecDecode

Spec == Init /\ [][Next]_vars

(* ---------------- one call after another --------------------------------- *)
\* generate is called up to MaxCalls times in the model.
MaxCalls == 2

\* generate_from_text is called again (musicgen.rs:350-357): a new pipeline
\* is loaded and generate starts with new locals.  Nothing of the returned
\* call is left but the result its caller holds.
NewCall ==
    /\ pc \in {"done", "error"}
    /\ calls + 1 < MaxCalls
    /\ calls' = calls + 1
    /\ pc' = "start"
    /\ result' = "none"
    /\ cause' = ""
    /\ dec_in' = NoCall
    /\ dec_out' = <<>>
    /\ events' = <<>>
    /\ UNCHANGED <<text_seq_len, encoder_hidden_states, encoder_attention_mask,
                   all_tokens, decoder_cache, encoder_cache, next_tokens, step,
                   sampled, audio_codes_flat, writes, sampled_at>>
    /\ UNCHANGED <<undelay_vars, cancel_at, app_vars, guidance_vars, library_vars>>

SessionNext == Setup \/ DecoderStep \/ FinishLoop \/ EncodecDecode \/ NewCall

SessionSpec == Init /\ [][SessionNext]_vars

(* ---------------- a caller that wants to stop the call ------------------ *)
\* Section 5 of the specification has a cancellation signal.  generate
\* takes the prompt and the progress callback only (musicgen.rs:57-61) and
\* reads nothing else while it runs, so raising the signal is a step of the
\* caller that changes no state of generate; cancel_at remembers the value
\* of the loop counter at that moment.
RaiseCancel ==
    /\ pc = "loop"
    /\ cancel_at = -1
    /\ cancel_at' = step
    /\ UNCHANGED <<generate_vars, undelay_vars, calls, app_vars, guidance_vars,
                   library_vars>>

CancelNext == Setup \/ DecoderStep \/ FinishLoop \/ EncodecDecode \/ RaiseCancel

CancelSpec == Init /\ [][CancelNext]_vars

(* ---------------- undelay as a function of the grid --------------------- *)
\* Grids of up to MaxUndelayLen columns are undelayed.
MaxUndelayLen == 7

\* Mutant: undelay starts at each codebook's activation boundary.
ReadCellsFromBoundary(n) ==
    {<<cb, cb + t>> : cb \in Codebooks, t \in 0 .. AlignedLen(n) - 1}

\* The cells undelay reads in a grid of n columns.
ReadCells(n) ==
    {<<cb, 1 + cb + t>> : cb \in Codebooks, t \in 0 .. AlignedLen(n) - 1}

\* A grid of n columns as the loop leaves it (BOS_TOKEN in column 0,
\* PAD_TOKEN up to each codebook's delay, both halves alike), with the
\* token 100 * cb + t in cell (cb, 1 + cb + t) and PAD_TOKEN left in the
\* cells of `padded`.
SyntheticGrid(n, padded) ==
    [r \in Rows |-> [c \in 0 .. n - 1 |->
        LET cb == r % NUM_CODEBOOKS IN
        IF c = 0 THEN BOS_TOKEN
        ELSE IF c <= cb \/ <<cb, c>> \in padded THEN PAD_TOKEN
        ELSE 100 * cb + (c - 1 - cb)]]

UndelayInit ==
    /\ GenerateInit
    /\ CallerInit
    /\ AppIdle
    /\ GuidanceIdle
    /\ LibraryIdle
    /\ u_pc = "input"
    /\ u_len \in NUM_CODEBOOKS + 1 .. MaxUndelayLen
    /\ \E padded \in SUBSET ReadCells(u_len) : u_grid = SyntheticGrid(u_len, padded)
    /\ u_codes = <<>>

ApplyUndelay ==
    /\ u_pc = "input"
    /\ u_pc' = "done"
    /\ u_codes' = Undelay(u_grid, u_len)
    /\ UNCHANGED <<u_len, u_grid, generate_vars, caller_vars, app_vars,
                   guidance_vars, library_vars>>

UndelayNext == ApplyUndelay

UndelaySpec == UndelayInit /\ [][UndelayNext]_vars

(* ---------------- classifier-free guidance as a function ---------------- *)
\* const GUIDANCE_SCALE: f32 = 3.0
GUIDANCE_SCALE == 3

\* The logits are f32: every arithmetic operation rounds its exact result
\* to the nearest value with a 24-bit significand, ties to even.  The model
\* computes on integers with a significand of MantissaBits bits, so that
\* an integer below 2^MantissaBits in magnitude is exact and a larger one
\* is a multiple of a power of two.
MantissaBits == 3

RECURSIVE Pow2(_)
Pow2(n) == IF n = 0 THEN 1 ELSE 2 * Pow2(n - 1)

Abs(x) == IF x < 0 THEN -x ELSE x

\* The spacing of the representable values around x.
RECURSIVE UlpFrom(_, _)
UlpFrom(x, q) == IF Abs(x) < q * Pow2(MantissaBits) THEN q ELSE UlpFrom(x, 2 * q)
Ulp(x) == UlpFrom(x, 1)

\* Round to nearest, ties to even.
Fl(x) ==
    LET q == Ulp(x)
        lo == (Abs(x) \div q) * q
        r == Abs(x) - lo
        up == IF 2 * r < q THEN lo
              ELSE IF 2 * r > q THEN lo + q
              ELSE IF (lo \div q) % 2 = 0 THEN lo ELSE lo + q
    IN  IF x < 0 THEN -up ELSE up

\* f32 subtraction, multiplication, addition
FSub(a, b) == Fl(a - b)
FMul(a, b) == Fl(a * b)
FAdd(a, b) == Fl(a + b)

\* The logits tensor of one step has a row per batch row and, in each, a
\* value per vocabulary entry.  The model takes two vocabulary entries and
\* these rows of (representable) logits.
GuidanceVocab == {0, 1}
LogitRow(a, b) == [v \in GuidanceVocab |-> IF v = 0 THEN a ELSE b]
LogitRows == {LogitRow(1, -16), LogitRow(2, 1), LogitRow(-16, 2)}

\* The scale generate uses, and the scale 1.
GuidanceScales == {1, GUIDANCE_SCALE}

\* logits_3d.slice(s![..NUM_CODEBOOKS, .., ..])
CondLogits(logits) == [cb \in Codebooks |-> logits[cb]]

\* logits_3d.slice(s![NUM_CODEBOOKS.., .., ..])
UncondLogits(logits) == [cb \in Codebooks |-> logits[cb + NUM_CODEBOOKS]]

\* Mutant: the extrapolation starts from the conditional logits.
CombineFromCond(cond, uncond, scale) ==
    [cb \in Codebooks |-> [v \in DOMAIN cond[cb] |->
        FAdd(cond[cb][v], FMul(scale, FSub(cond[cb][v], uncond[cb][v])))]]

\* &uncond_logits + scale * (&cond_logits - &uncond_logits), elementwise,
\* three array operations one after the other
Combine(cond, uncond, scale) ==
    [cb \in Codebooks |-> [v \in DOMAIN cond[cb] |->
        FAdd(uncond[cb][v], FMul(scale, FSub(cond[cb][v], uncond[cb][v])))]]

GuidanceInit ==
    /\ GenerateInit
    /\ UndelayIdle
    /\ CallerInit
    /\ AppIdle
    /\ LibraryIdle
    /\ g_pc = "input"
    /\ g_logits \in [Rows -> LogitRows]
    /\ g_scale \in GuidanceScales
    /\ g_cfg = <<>>

\* musicgen.rs:249-257
ApplyGuidance ==
    /\ g_pc = "input"
    /\ g_pc' = "done"
    /\ g_cfg' = Combine(CondLogits(g_logits), UncondLogits(g_logits), g_scale)
    /\ UNCHANGED <<g_logits, g_scale, generate_vars, undelay_vars, caller_vars,
                   app_vars, library_vars>>

GuidanceNext == ApplyGuidance

GuidanceSpec == GuidanceInit /\ [][GuidanceNext]_vars

(* ---------------- top_k_sample as a function (musicgen.rs:328-345) ------ *)
\* Logits vectors of up to MaxVocab entries are sampled.
MaxVocab == 3

\* An f32 logit in the model: a small integer, or one of the values that
\* are no numbers.  NegInf only arises from a subtraction.
NaN == 901
PosInf == 900
NegInf == -900
LogitValues == {0, 1, 5, NaN, PosInf}
LogitVectors == UNION {[0 .. n - 1 -> LogitValues] : n \in 1 .. MaxVocab}

\* The states of the generator handed to top_k_sample.
RngStates == {0, 7, 9, 14}

\* b.1.partial_cmp(&a.1) is Some(Greater): a comparison with NaN is None
Greater(a, b) == a # NaN /\ b # NaN /\ a > b

HasNaN(logits) == \E i \in DOMAIN logits : logits[i] = NaN

\* The orders of the indices 0 .. n - 1
Perms(n) ==
    {p \in [1 .. n -> 0 .. n - 1] : \A i, j \in 1 .. n : i # j => p[i] # p[j]}

\* indexed.sort_unstable_by(|a, b| b.1.partial_cmp(&a.1).unwrap_or(Equal)),
\* as the order of the indices it leaves: descending by logit, equal logits
\* in an order the library chooses.  With a NaN among the logits the
\* comparison is no total order, and the library then promises no order
\* and may panic (the empty sequence here).
SortOutcomes(logits) ==
    LET n == Cardinality(DOMAIN logits) IN
    IF HasNaN(logits)
    THEN Perms(n) \cup {<<>>}
    ELSE {p \in Perms(n) :
            \A i \in 1 .. n - 1 : ~Greater(logits[p[i + 1]], logits[p[i]])}

\* v - max_logit on f32
LogitSub(v, m) ==
    IF v = NaN \/ m = NaN THEN NaN
    ELSE IF v = PosInf THEN (IF m = PosInf THEN NaN ELSE PosInf)
    ELSE IF m = PosInf THEN NegInf
    ELSE v - m

\* exp underflows to 0 below -ExpRange in the model (below about -104 on f32).
ExpRange == 3

\* (v - max_logit).exp(), with powers of two for the powers of e and
\* scaled by 2^ExpRange to stay an integer
ExpOf(d) ==
    IF d = NaN THEN NaN
    ELSE IF d = PosInf THEN PosInf
    ELSE IF d = NegInf \/ d < -ExpRange THEN 0
    ELSE Pow2(ExpRange + d)

RECURSIVE SumTo(_, _)
\* exps[1] + ... + exps[i] on f32
SumTo(exps, i) ==
    IF i = 0 THEN 0
    ELSE LET rest == SumTo(exps, i - 1) IN
         IF rest = NaN \/ exps[i] = NaN THEN NaN
         ELSE IF rest = PosInf \/ exps[i] = PosInf THEN PosInf
         ELSE rest + exps[i]

\* exps.iter().map(|e| e / sum): every weight is divided by the same sum,
\* so a finite weight over a finite sum is kept as its numerator.
Probs(exps) ==
    LET sum == SumTo(exps, Len(exps)) IN
    [i \in DOMAIN exps |->
        IF exps[i] = NaN \/ sum = NaN THEN NaN
        ELSE IF exps[i] = PosInf THEN (IF sum = PosInf THEN NaN ELSE PosInf)
        ELSE IF sum = PosInf THEN 0
        ELSE exps[i]]

\* WeightedIndex::new(&probs) is Ok: no weight is NaN or infinite and
\* their total is positive.
WeightsValid(probs) ==
    /\ \A i \in DOMAIN probs : probs[i] \notin {NaN, PosInf}
    /\ SumTo(probs, Len(probs)) > 0

\* Mutant: the draw comes from a generator the sampler keeps to itself,
\* which every invocation advances.
SampleOwnGenerator(probs, rng) ==
    LET u == (rng + Len(s_tokens)) % SumTo(probs, Len(probs)) IN
    CHOOSE i \in DOMAIN probs :
        /\ SumTo(probs, i) > u
        /\ \A j \in 1 .. i - 1 : SumTo(probs, j) <= u

\* dist.sample(rng): a uniform draw below the total weight from the
\* generator, and the first entry whose cumulative weight exceeds it
Sample(probs, rng) ==
    LET u == rng % SumTo(probs, Len(probs)) IN
    CHOOSE i \in DOMAIN probs :
        /\ SumTo(probs, i) > u
        /\ \A j \in 1 .. i - 1 : SumTo(probs, j) <= u

\* What an invocation that panics returns in the model.
Panicked == -1

\* musicgen.rs:328-345, given the order the sort leaves
top_k_sample(logits, k, rng, order) ==
    IF order = <<>> THEN Panicked
    ELSE LET kk == IF k < Len(order) THEN k ELSE Len(order)
             indexed == SubSeq(order, 1, kk)
             max_logit == logits[indexed[1]]
             exps == [i \in 1 .. kk |-> ExpOf(LogitSub(logits[indexed[i]], max_logit))]
             probs == Probs(exps)
         IN  IF WeightsValid(probs) THEN indexed[Sample(probs, rng)] ELSE Panicked

SamplerInit ==
    /\ GenerateInit
    /\ UndelayIdle
    /\ CallerInit
    /\ AppIdle
    /\ GuidanceIdle
    /\ RingIdle
    /\ ScenarioIdle
    /\ PluginIdle
    /\ s_pc = "input"
    /\ s_logits \in LogitVectors
    /\ s_k \in 1 .. MaxVocab + 1
    /\ s_rng \in RngStates
    /\ s_order \in SortOutcomes(s_logits)
    /\ s_tokens = <<>>

\* top_k_sample(logits, k, &mut rng) with rng in the state s_rng
InvokeSampler ==
    /\ s_pc \in {"input", "once"}
    /\ s_pc' = IF s_pc = "input" THEN "once" ELSE "twice"
    /\ s_tokens' = Append(s_tokens, top_k_sample(s_logits, s_k, s_rng, s_order))
    /\ UNCHANGED <<s_logits, s_k, s_rng, s_order>>
    /\ UNCHANGED <<generate_vars, undelay_vars, caller_vars, app_vars,
                   guidance_vars, ring_vars, scenario_vars,
                   plugin_vars>>

SamplerNext == InvokeSampler

SamplerSpec == SamplerInit /\ [][SamplerNext]_vars

(* ---------------- generate with other constants ------------------------- *)
\* MAX_LENGTH and NUM_CODEBOOKS are constants of musicgen.rs (1500 and 4).
\* Steps 4 to 7 of generate are uniform in them; here they run with the
\* constants as parameters n and c, on a decoder whose logits make
\* top_k_sample return the same token for every codebook at every step.
ScenarioLengths == 3 .. 10
ScenarioCodebooks == {1, 2}
ScenarioTokens == {5, 9}

\* Mutant: no column is given up to the delays.
AlignedLenOfNoDelay(n, c) == n - 1

\* musicgen.rs:298
AlignedLenOf(n, c) == n - 1 - (c - 1)

\* musicgen.rs:119-128
GridOf(n, c) ==
    [r \in 0 .. 2 * c - 1 |->
        [col \in 0 .. n - 1 |-> IF col = 0 THEN BOS_TOKEN ELSE PAD_TOKEN]]

\* musicgen.rs:259-280: every row gets the token of its codebook where
\* pos > delay
WriteColumnOf(grid, pos, tok, n, c) ==
    [r \in DOMAIN grid |-> [col \in DOMAIN grid[r] |->
        IF col = pos /\ pos < n /\ pos > r % c THEN tok ELSE grid[r][col]]]

\* musicgen.rs:298-309
UndelayOf(grid, n, c) ==
    [i \in 0 .. c * AlignedLenOf(n, c) - 1 |->
        LET cb == i \div AlignedLenOf(n, c)
            t == i % AlignedLenOf(n, c)
            src_col == 1 + cb + t
        IN  IF src_col < n
            THEN IF grid[cb][src_col] = PAD_TOKEN THEN 0 ELSE grid[cb][src_col]
            ELSE 0]

ScenarioInit ==
    /\ GenerateInit
    /\ UndelayIdle
    /\ CallerInit
    /\ AppIdle
    /\ GuidanceIdle
    /\ SamplerIdle
    /\ RingIdle
    /\ PluginIdle
    /\ sc_pc = "loop"
    /\ sc_max_length \in ScenarioLengths
    /\ sc_num_codebooks \in ScenarioCodebooks
    /\ sc_max_length > sc_num_codebooks
    /\ sc_token \in ScenarioTokens
    /\ sc_grid = GridOf(sc_max_length, sc_num_codebooks)
    /\ sc_step = 0
    /\ sc_codes = <<>>

\* musicgen.rs:159-290
ScenarioStep ==
    /\ sc_pc = "loop"
    /\ sc_step < sc_max_length - 1
    /\ sc_grid' = WriteColumnOf(sc_grid, sc_step + 1, sc_token, sc_max_length,
                                sc_num_codebooks)
    /\ sc_step' = sc_step + 1
    /\ UNCHANGED <<sc_pc, sc_max_length, sc_num_codebooks, sc_token, sc_codes>>
    /\ UNCHANGED <<generate_vars, undelay_vars, caller_vars, app_vars,
                   guidance_vars, sampler_vars, ring_vars,
                   plugin_vars>>

\* musicgen.rs:292-309
ScenarioUndelay ==
    /\ sc_pc = "loop"
    /\ sc_step = sc_max_length - 1
    /\ sc_pc' = "decode"
    /\ sc_codes' = UndelayOf(sc_grid, sc_max_length, sc_num_codebooks)
    /\ UNCHANGED <<sc_max_length, sc_num_codebooks, sc_token, sc_grid, sc_step>>
    /\ UNCHANGED <<generate_vars, undelay_vars, caller_vars, app_vars,
                   guidance_vars, sampler_vars, ring_vars,
                   plugin_vars>>

\* musicgen.rs:313-324: encodec_decode runs on audio_codes_flat
ScenarioDecode ==
    /\ sc_pc = "decode"
    /\ sc_pc' = "done"
    /\ UNCHANGED <<sc_max_length, sc_num_codebooks, sc_token, sc_grid, sc_step,
                   sc_codes>>
    /\ UNCHANGED <<generate_vars, undelay_vars, caller_vars, app_vars,
                   guidance_vars, sampler_vars, ring_vars,
                   plugin_vars>>

ScenarioNext == ScenarioStep \/ ScenarioUndelay \/ ScenarioDecode

ScenarioSpec == ScenarioInit /\ [][ScenarioNext]_vars

(* ---------------- RingBuffer (poing-core/src/audio_buffer.rs) ------------ *)
\* Buffers of capacity 1 .. MaxRingCapacity take writes of up to
\* MaxWriteLen samples, up to MaxRingWritten samples between two clears.
MaxRingCapacity == 3
MaxWriteLen == 2
MaxRingWritten == 5
RingSamples == {1, 2}
WriteArgs == UNION {[1 .. n -> RingSamples] : n \in 0 .. MaxWriteLen}

\* RingBuffer::new (audio_buffer.rs:10-16)
RingNew(capacity) ==
    [buffer |-> [i \in 0 .. capacity - 1 |-> 0], write_pos |-> 0, len |-> 0]

\* RingBuffer::capacity
RingCapacity(rb) == Cardinality(DOMAIN rb.buffer)

RECURSIVE RingWriteUncapped(_, _)
\* Mutant: write counts every sample, also once the buffer is full.
RingWriteUncapped(rb, samples) ==
    IF samples = <<>> THEN rb
    ELSE RingWriteUncapped(
            [buffer |-> [rb.buffer EXCEPT ![rb.write_pos] = Head(samples)],
             write_pos |-> (rb.write_pos + 1) % RingCapacity(rb),
             len |-> rb.len + 1],
            Tail(samples))

RECURSIVE RingWrite(_, _)
\* RingBuffer::write (audio_buffer.rs:19-27), sample by sample
RingWrite(rb, samples) ==
    IF samples = <<>> THEN rb
    ELSE RingWrite(
            [buffer |-> [rb.buffer EXCEPT ![rb.write_pos] = Head(samples)],
             write_pos |-> (rb.write_pos + 1) % RingCapacity(rb),
             len |-> IF rb.len < RingCapacity(rb) THEN rb.len + 1 ELSE rb.len],
            Tail(samples))

\* Mutant: read never takes the wrapped branch.
RingReadFromStart(rb) == [i \in 1 .. rb.len |-> rb.buffer[i - 1]]

\* RingBuffer::read (audio_buffer.rs:30-41)
RingRead(rb) ==
    IF rb.len < RingCapacity(rb)
    THEN [i \in 1 .. rb.len |-> rb.buffer[i - 1]]
    ELSE [i \in 1 .. RingCapacity(rb) - rb.write_pos |-> rb.buffer[rb.write_pos + i - 1]]
         \o [i \in 1 .. rb.write_pos |-> rb.buffer[i - 1]]

\* Mutant: clear forgets the length only.
RingClearLenOnly(rb) == [rb EXCEPT !.len = 0]

\* RingBuffer::clear (audio_buffer.rs:44-47)
RingClear(rb) == [rb EXCEPT !.write_pos = 0, !.len = 0]

\* RingBuffer::is_empty
RingIsEmpty(rb) == rb.len = 0

\* The buffer of the model as a value.
Ring == [buffer |-> rb_buffer, write_pos |-> rb_write_pos, len |-> rb_len]

RingInit ==
    /\ GenerateInit
    /\ UndelayIdle
    /\ CallerInit
    /\ AppIdle
    /\ GuidanceIdle
    /\ SamplerIdle
    /\ ScenarioIdle
    /\ PluginIdle
    /\ rb_pc = "live"
    /\ \E capacity \in 1 .. MaxRingCapacity :
        /\ rb_buffer = RingNew(capacity).buffer
        /\ rb_write_pos = RingNew(capacity).write_pos
        /\ rb_len = RingNew(capacity).len
    /\ rb_written = <<>>
    /\ rb_cleared = FALSE
    /\ rb_fresh = <<>>

\* buf.write(samples)
RingBufferWrite(samples) ==
    /\ rb_pc = "live"
    /\ Len(rb_written) + Len(samples) <= MaxRingWritten
    /\ LET after == RingWrite(Ring, samples) IN
        /\ rb_buffer' = after.buffer
        /\ rb_write_pos' = after.write_pos
        /\ rb_len' = after.len
    /\ rb_written' = rb_written \o samples
    /\ rb_fresh' = IF rb_cleared THEN RingWrite(rb_fresh, samples) ELSE rb_fresh
    /\ UNCHANGED <<rb_pc, rb_cleared>>
    /\ UNCHANGED <<generate_vars, undelay_vars, caller_vars, app_vars,
                   guidance_vars, sampler_vars, scenario_vars,
                   plugin_vars>>

\* buf.clear()
RingBufferClear ==
    /\ rb_pc = "live"
    /\ LET after == RingClear(Ring) IN
        /\ rb_buffer' = after.buffer
        /\ rb_write_pos' = after.write_pos
        /\ rb_len' = after.len
    /\ rb_written' = <<>>
    /\ rb_cleared' = TRUE
    /\ rb_fresh' = RingNew(RingCapacity(Ring))
    /\ UNCHANGED rb_pc
    /\ UNCHANGED <<generate_vars, undelay_vars, caller_vars, app_vars,
                   guidance_vars, sampler_vars, scenario_vars,
                   plugin_vars>>

RingNext ==
    \/ \E samples \in WriteArgs : RingBufferWrite(samples)
    \/ RingBufferClear

RingSpec == RingInit /\ [][RingNext]_vars

(* ---------------- the front ends and their generation workers ---------- *)
\* poing-editor/src/model.rs (vizia editor), poing-gui/src/lib.rs (makepad
\* GUI) and their worker threads, over the SharedState of
\* poing-core/src/lib.rs.  A prompt is known by its kind: empty, blank
\* (white space only) or text.  A worker's call of generate_from_text is
\* summarised by what the front end can see of it: loading the pipeline,
\* the progress notifications, and its outcome (Ok, Err, or a panic).
PromptKinds == {"empty", "blank", "text"}

\* str::trim
Trim(p) == IF p = "blank" THEN "empty" ELSE p

\* str::is_empty
IsEmpty(p) == p = "empty"

\* Directories a browse dialog can return; config::validate_model_dir
\* accepts those that hold the four model files.
ModelDirs == {"a", "b", "c"}
BrowsePaths == {"a", "b", "bad"}
ValidateModelDir(path) == path \in ModelDirs

\* Path::file_name of a model directory: "a" and "c" are directories of
\* the same name under different parents.
FileName(path) == IF path = "b" THEN "large" ELSE "small"

\* PoingModel::paths_to_names (model.rs:84-97)
paths_to_names(paths) ==
    IF paths = <<>> THEN <<"No models loaded">>
    ELSE [i \in 1 .. Len(paths) |-> FileName(paths[i])]

\* Vec::get(index).cloned().unwrap_or_default(), 0-based
NameAt(names, index) == IF index < Len(names) THEN names[index + 1] ELSE ""

\* The values one generate call passes to its progress callback, here for
\* a loop of one step: 0/1 at the end of step 0, then the final 1.0.
Notifications == <<[num |-> 0, den |-> 1], [num |-> 1, den |-> 1]>>

\* SharedState::new (lib.rs:37-53) and PoingModel::new / App::run: the
\* configuration holds no model directory or one.
AppInit ==
    /\ frontend \in {"editor", "gui"}
    /\ prompt = "empty"
    /\ model_paths \in {<<>>, <<"a">>}
    /\ model_path = IF model_paths = <<>> THEN "None" ELSE model_paths[1]
    /\ selected_model_index = 0
    /\ model_names = IF frontend = "editor" THEN paths_to_names(model_paths) ELSE <<>>
    /\ selected_model_name = IF frontend = "editor" THEN model_names[1] ELSE ""
    /\ generation_state = GenState("Idle", "", 0)
    /\ progress = [num |-> 0, den |-> 1]
    /\ generated_audio = 0
    /\ is_generating = FALSE
    /\ was_generating = FALSE
    /\ ui_pc = "idle"
    /\ ticks = 0
    /\ workers = [w \in Workers |-> NoWorker]

Unborn == {w \in Workers : workers[w].pc = "unborn"}

\* std::thread::spawn: the thread gets the least unused identity.
Spawned(kind) ==
    LET w == CHOOSE v \in Unborn : \A u \in Unborn : v <= u
    IN  [workers EXCEPT ![w] = [pc |-> "spawned", prompt |-> kind, n |-> 0, sets |-> 0]]

\* PoingEvent::SetPrompt / typing into prompt_input
SetPrompt(p) ==
    /\ UNCHANGED outside_app
    /\ frontend \in {"editor", "gui"}
    /\ ui_pc = "idle"
    /\ p # prompt
    /\ prompt' = p
    /\ UNCHANGED <<frontend, model_paths, model_path, selected_model_index,
                   generation_state, progress, generated_audio, is_generating,
                   was_generating, ui_pc, ticks, workers>>

\* PoingModel::start_generation (model.rs:204-296), up to the spawn.  The
\* prompt handed to the worker is "<bpm> bpm. <prompt>", hence text.
EditorStartGeneration ==
    /\ UNCHANGED outside_app
    /\ frontend = "editor"
    /\ ui_pc = "idle"
    /\ ~is_generating
    /\ IF IsEmpty(Trim(prompt))
       THEN /\ is_generating' = FALSE
            /\ generation_state' = GenState("Error", "Please enter a prompt", 0)
            /\ UNCHANGED <<progress, generated_audio, workers>>
       ELSE IF model_path = "None"
       THEN /\ is_generating' = FALSE
            /\ generation_state' = GenState("Error", "No model path configured", 0)
            /\ UNCHANGED <<progress, generated_audio, workers>>
       ELSE /\ Unborn # {}
            /\ is_generating' = TRUE
            /\ generation_state' = GenState("Generating", "", 0)
            /\ progress' = [num |-> 0, den |-> 1]
            /\ generated_audio' = 0
            /\ workers' = Spawned("text")
    /\ UNCHANGED <<frontend, prompt, model_paths, model_path,
                   selected_model_index, was_generating, ui_pc, ticks>>

\* App::start_generation (poing-gui/src/lib.rs:121-165), up to the spawn
GuiStartGeneration ==
    /\ UNCHANGED outside_app
    /\ frontend = "gui"
    /\ ui_pc = "idle"
    /\ ~IsEmpty(prompt)
    /\ Unborn # {}
    /\ generation_state' = GenState("Generating", "", 0)
    /\ progress' = [num |-> 0, den |-> 1]
    /\ generated_audio' = 0
    /\ workers' = Spawned(prompt)
    /\ UNCHANGED <<frontend, prompt, model_paths, model_path,
                   selected_model_index, is_generating, was_generating,
                   ui_pc, ticks>>

\* PoingEvent::TimerTick is taken off the event queue and
\* poll_shared_state locks generation_state (model.rs:100).
TimerTick ==
    /\ UNCHANGED outside_app
    /\ frontend = "editor"
    /\ ui_pc = "idle"
    /\ ticks > 0
    /\ ticks' = ticks - 1
    /\ ui_pc' = "polling"
    /\ UNCHANGED <<frontend, prompt, model_paths, model_path,
                   selected_model_index, generation_state, progress,
                   generated_audio, is_generating, was_generating, workers>>

\* PoingModel::poll_shared_state (model.rs:99-155) from the clone of
\* generation_state on
PollSharedState ==
    /\ UNCHANGED outside_app
    /\ ui_pc = "polling"
    /\ ui_pc' = "idle"
    /\ was_generating' = (generation_state.tag = "Generating")
    /\ is_generating' = (generation_state.tag = "Generating")
    /\ UNCHANGED <<frontend, prompt, model_paths, model_path,
                   selected_model_index, generation_state, progress,
                   generated_audio, ticks, workers>>

\* The 0-based position of path in paths (paths holds it).
Position(paths, path) == (CHOOSE i \in 1 .. Len(paths) : paths[i] = path) - 1

Contains(paths, path) == \E i \in 1 .. Len(paths) : paths[i] = path

\* PoingModel::handle_browse_result (model.rs:359-389)
HandleBrowseResult(path) ==
    /\ UNCHANGED outside_frontend
    /\ frontend = "editor"
    /\ ui_pc = "idle"
    /\ IF ~ValidateModelDir(path)
       THEN /\ generation_state' = GenState("Error", "Invalid model directory", 0)
            /\ UNCHANGED <<model_paths, model_path, selected_model_index,
                           model_names, selected_model_name>>
       ELSE LET paths == IF Contains(model_paths, path) THEN model_paths
                         ELSE Append(model_paths, path)
            IN  /\ model_paths' = paths
                /\ model_path' = path
                /\ model_names' = paths_to_names(paths)
                /\ selected_model_index' = Position(paths, path)
                /\ selected_model_name' = NameAt(model_names', Position(paths, path))
                /\ generation_state' = GenState("Idle", "", 0)
    /\ UNCHANGED <<frontend, prompt, progress, generated_audio, is_generating,
                   was_generating, ui_pc, ticks, workers>>

\* Vec::remove(index), 0-based
Remove(paths, index) ==
    [i \in 1 .. Len(paths) - 1 |-> IF i <= index THEN paths[i] ELSE paths[i + 1]]

Min(a, b) == IF a <= b THEN a ELSE b

\* PoingModel::remove_selected_model (model.rs:391-419)
RemoveSelectedModel ==
    /\ UNCHANGED outside_frontend
    /\ frontend = "editor"
    /\ ui_pc = "idle"
    /\ selected_model_index < Len(model_paths)
    /\ LET paths == Remove(model_paths, selected_model_index)
           idx == Min(selected_model_index, Len(paths) - 1)
       IN  /\ model_paths' = paths
           /\ model_names' = paths_to_names(paths)
           /\ IF paths = <<>>
              THEN /\ model_path' = "None"
                   /\ selected_model_index' = 0
                   /\ selected_model_name' = "No models loaded"
              ELSE /\ model_path' = paths[idx + 1]
                   /\ selected_model_index' = idx
                   /\ selected_model_name' = NameAt(model_names', idx)
    /\ UNCHANGED <<frontend, prompt, generation_state, progress,
                   generated_audio, is_generating, was_generating, ui_pc,
                   ticks, workers>>

\* PoingModel::select_model (model.rs:421-428)
SelectModel(index) ==
    /\ UNCHANGED outside_frontend
    /\ frontend = "editor"
    /\ ui_pc = "idle"
    /\ index < Len(model_paths)
    /\ \/ index # selected_model_index
       \/ model_path # model_paths[index + 1]
       \/ selected_model_name # NameAt(model_names, index)
    /\ model_path' = model_paths[index + 1]
    /\ selected_model_index' = index
    /\ selected_model_name' = NameAt(model_names, index)
    /\ UNCHANGED <<frontend, prompt, model_paths, generation_state, progress,
                   generated_audio, is_generating, was_generating, ui_pc,
                   ticks, workers, model_names>>

\* The editor window is closed and opened again: create (lib.rs:28-37)
\* builds a new PoingModel over the same SharedState (model.rs:58-82).
ReopenEditor ==
    /\ UNCHANGED outside_frontend
    /\ frontend = "editor"
    /\ ui_pc = "idle"
    /\ model_names' = paths_to_names(model_paths)
    /\ selected_model_name' = model_names'[1]
    /\ selected_model_index' = 0
    /\ prompt' = "empty"
    /\ is_generating' = FALSE
    /\ was_generating' = FALSE
    /\ UNCHANGED <<frontend, model_paths, model_path, generation_state,
                   progress, generated_audio, ui_pc, ticks, workers>>

\* A worker waits for the generation_state lock while the UI thread holds it.
GenStateLockFree == ui_pc = "idle"

\* The end of the thread's closure: the editor's worker emits a last
\* TimerTick (model.rs:294), the GUI's worker just returns.
Emitted == IF frontend = "editor" THEN ticks + 1 ELSE ticks

\* Worker w assigns generation_state and ends.
WorkerEnds(w, tag, msg) ==
    /\ GenStateLockFree
    /\ generation_state' = GenState(tag, msg, w)
    /\ workers' = [workers EXCEPT ![w].pc = "exited", ![w].sets = @ + 1]
    /\ ticks' = Emitted

\* model.rs:253-254, 276-279 / lib.rs:139-140, 158-161: the thread reads
\* model_path
WorkerReadModelPath(w) ==
    /\ UNCHANGED outside_app
    /\ workers[w].pc = "spawned"
    /\ IF model_path # "None"
       THEN /\ workers' = [workers EXCEPT ![w].pc = "loading"]
            /\ UNCHANGED <<generation_state, ticks>>
       ELSE WorkerEnds(w, "Error", "No model path configured")
    /\ UNCHANGED <<frontend, prompt, model_paths, model_path,
                   selected_model_index, progress, generated_audio,
                   is_generating, was_generating, ui_pc>>

\* generate_from_text: MusicGenPipeline::load succeeded (musicgen.rs:355).
\* No prompt is looked at before the models are loaded.
WorkerLoad(w) ==
    /\ UNCHANGED outside_app
    /\ workers[w].pc = "loading"
    /\ workers' = [workers EXCEPT ![w].pc = "generating"]
    /\ UNCHANGED <<frontend, prompt, model_paths, model_path,
                   selected_model_index, generation_state, progress,
                   generated_audio, is_generating, was_generating, ui_pc, ticks>>

\* The progress closure (model.rs:261-264 / lib.rs:145-147)
WorkerProgress(w) ==
    /\ UNCHANGED outside_app
    /\ workers[w].pc = "generating"
    /\ workers[w].n < Len(Notifications)
    /\ progress' = Notifications[workers[w].n + 1]
    /\ workers' = [workers EXCEPT ![w].n = @ + 1]
    /\ ticks' = Emitted
    /\ UNCHANGED <<frontend, prompt, model_paths, model_path,
                   selected_model_index, generation_state, generated_audio,
                   is_generating, was_generating, ui_pc>>

\* Ok(audio): generated_audio <- Some(audio) (model.rs:267 / lib.rs:150)
WorkerPublishAudio(w) ==
    /\ UNCHANGED outside_app
    /\ workers[w].pc = "generating"
    /\ workers[w].n = Len(Notifications)
    /\ generated_audio' = w
    /\ workers' = [workers EXCEPT ![w].pc = "audio_set"]
    /\ UNCHANGED <<frontend, prompt, model_paths, model_path,
                   selected_model_index, generation_state, progress,
                   is_generating, was_generating, ui_pc, ticks>>

\* generation_state <- Complete (model.rs:268 / lib.rs:151)
WorkerSetComplete(w) ==
    /\ UNCHANGED outside_app
    /\ workers[w].pc = "audio_set"
    /\ WorkerEnds(w, "Complete", "")
    /\ UNCHANGED <<frontend, prompt, model_paths, model_path,
                   selected_model_index, progress, generated_audio,
                   is_generating, was_generating, ui_pc>>

\* Err(e): loading or generating failed (model.rs:270-273 / lib.rs:153-156)
WorkerGenerateErr(w) ==
    /\ UNCHANGED outside_app
    /\ workers[w].pc \in {"loading", "generating"}
    /\ WorkerEnds(w, "Error", "generate")
    /\ UNCHANGED <<frontend, prompt, model_paths, model_path,
                   selected_model_index, progress, generated_audio,
                   is_generating, was_generating, ui_pc>>

\* generate panics (an unwrap at musicgen.rs:99, 263 or 342).  The editor's
\* closure catches it and assigns the state if try_lock gets the lock
\* (model.rs:281-292); the GUI's thread unwinds and is gone.
WorkerPanic(w) ==
    /\ UNCHANGED outside_app
    /\ workers[w].pc = "generating"
    /\ IF frontend = "editor"
       THEN /\ generation_state' =
                IF GenStateLockFree THEN GenState("Error", "Internal error", w)
                ELSE generation_state
            /\ workers' = [workers EXCEPT ![w].pc = "exited",
                              ![w].sets = IF GenStateLockFree THEN @ + 1 ELSE @]
            /\ ticks' = Emitted
       ELSE /\ workers' = [workers EXCEPT ![w].pc = "died"]
            /\ UNCHANGED <<generation_state, ticks>>
    /\ UNCHANGED <<frontend, prompt, model_paths, model_path,
                   selected_model_index, progress, generated_audio,
                   is_generating, was_generating, ui_pc>>

AppNext ==
    \/ \E p \in PromptKinds : SetPrompt(p)
    \/ EditorStartGeneration
    \/ GuiStartGeneration
    \/ TimerTick
    \/ PollSharedState
    \/ \E path \in BrowsePaths : HandleBrowseResult(path)
    \/ RemoveSelectedModel
    \/ \E index \in 0 .. 1 : SelectModel(index)
    \/ \E w \in Workers : WorkerReadModelPath(w)
    \/ \E w \in Workers : WorkerLoad(w)
    \/ \E w \in Workers : WorkerProgress(w)
    \/ \E w \in Workers : WorkerPublishAudio(w)
    \/ \E w \in Workers : WorkerSetComplete(w)
    \/ \E w \in Workers : WorkerGenerateErr(w)
    \/ \E w \in Workers : WorkerPanic(w)

AppSpecInit ==
    GenerateInit /\ UndelayIdle /\ CallerInit /\ GuidanceIdle /\ LibraryIdle /\ AppInit

AppSpec == AppSpecInit /\ [][AppNext]_vars

(* ---------------- the model selection of the editor --------------------- *)
\* The editor's model list on its own: the three handlers of the selection
\* and the closing and reopening of the window, over every directory a
\* browse dialog can return.
SelectionInit == AppSpecInit /\ frontend = "editor"

SelectionNext ==
    \/ \E path \in ModelDirs \cup {"bad"} : HandleBrowseResult(path)
    \/ RemoveSelectedModel
    \/ \E index \in 0 .. Cardinality(ModelDirs) - 1 : SelectModel(index)
    \/ ReopenEditor

SelectionSpec == SelectionInit /\ [][SelectionNext]_vars

(* ---------------- the plugin's threads and mutexes ---------------------- *)
\* The handlers of the plugin and of the editor as the sequences of their
\* lock operations and of the statements between them. A thread takes one
\* step at a time; a `lock` step waits until the mutex is free, a `try`
\* step never waits. Every guard of the source is a temporary or a scoped
\* binding, so each `unlock` sits where the source drops the guard, and the
\* statement executed under the guard takes effect with it. The values kept
\* under prompt, generation_state, progress, generated_audio, sample_rate,
\* host_tempo and host_time_sig are those of AppSpec and are left out here.

\* The capacity of Poing.ring_buffer (48_000 * 30 in lib.rs:27), scaled down.
PluginRingCapacity == 2
\* How often recording is started.
MaxRecordings == 2

S(op, m, to, eff) == [op |-> op, m |-> m, to |-> to, eff |-> eff]

NoLoc == [path |-> "", index |-> 0, flag |-> FALSE]

\* Poing::initialize (poing-plugin/src/lib.rs:72-91)
initialize ==
    << S("lock", "sample_rate", 0, ""),                  \* 78
       S("unlock", "sample_rate", 0, "none"),            \* 79-80
       S("lock", "selected_model_path", 0, ""),          \* 83
       S("if", "", 7, "persisted_some"),                 \* 84
       S("lock", "model_path", 0, ""),                   \* 86
       S("unlock", "model_path", 0, "restore"),          \* 86
       S("unlock", "selected_model_path", 0, "none"),    \* 88
       S("end", "", 0, "") >>

\* Mutant: process waits for recorded_audio.
process_locking ==
    << S("try", "host_tempo", 3, ""),
       S("unlock", "host_tempo", 0, "none"),
       S("try", "host_time_sig", 5, ""),
       S("unlock", "host_time_sig", 0, "none"),
       S("if", "", 9, "is_recording"),
       S("do", "", 0, "write_ring"),
       S("lock", "recorded_audio", 0, ""),
       S("unlock", "recorded_audio", 0, "publish"),
       S("try", "model_path", 13, ""),
       S("try", "selected_model_path", 12, ""),
       S("unlock", "selected_model_path", 0, "persist"),
       S("unlock", "model_path", 0, "none"),
       S("end", "", 0, "") >>

\* Poing::process (poing-plugin/src/lib.rs:93-141), for a host that reports
\* its tempo and time signature and hands over one sample frame per call
process ==
    << S("try", "host_tempo", 3, ""),                    \* 102
       S("unlock", "host_tempo", 0, "none"),             \* 103-104
       S("try", "host_time_sig", 5, ""),                 \* 109
       S("unlock", "host_time_sig", 0, "none"),          \* 110-111
       S("if", "", 9, "is_recording"),                   \* 115
       S("do", "", 0, "write_ring"),                     \* 116-121
       S("try", "recorded_audio", 9, ""),                \* 124
       S("unlock", "recorded_audio", 0, "publish"),      \* 125-126
       S("try", "model_path", 13, ""),                   \* 130
       S("try", "selected_model_path", 12, ""),          \* 131
       S("unlock", "selected_model_path", 0, "persist"), \* 132-136
       S("unlock", "model_path", 0, "none"),             \* 137
       S("end", "", 0, "") >>

\* PoingModel::toggle_recording (model.rs:298-316)
toggle_recording ==
    << S("do", "", 0, "flip"),                           \* 299-302
       S("if", "", 6, "was_recording"),                  \* 304
       S("lock", "recorded_audio", 0, ""),               \* 306
       S("unlock", "recorded_audio", 0, "none"),         \* 306 (clone)
       S("goto", "", 8, ""),
       S("lock", "recorded_audio", 0, ""),               \* 313
       S("unlock", "recorded_audio", 0, "clear"),        \* 313
       S("end", "", 0, "") >>

\* Mutant: the guard of the index block is still alive when model_paths is
\* locked again.
handle_browse_result_guard_kept ==
    << S("if", "", 11, "valid"),
       S("lock", "model_paths", 0, ""),
       S("goto", "", 4, ""),
       S("lock", "model_path", 0, ""),
       S("unlock", "model_path", 0, "set_path"),
       S("lock", "model_paths", 0, ""),
       S("unlock", "model_paths", 0, "names"),
       S("lock", "generation_state", 0, ""),
       S("unlock", "generation_state", 0, "none"),
       S("goto", "", 13, ""),
       S("lock", "generation_state", 0, ""),
       S("unlock", "generation_state", 0, "none"),
       S("end", "", 0, "") >>

\* PoingModel::handle_browse_result (model.rs:359-389)
handle_browse_result ==
    << S("if", "", 11, "valid"),                         \* 360
       S("lock", "model_paths", 0, ""),                  \* 368
       S("unlock", "model_paths", 0, "push"),            \* 369-379
       S("lock", "model_path", 0, ""),                   \* 382
       S("unlock", "model_path", 0, "set_path"),         \* 382
       S("lock", "model_paths", 0, ""),                  \* 383
       S("unlock", "model_paths", 0, "names"),           \* 383-386
       S("lock", "generation_state", 0, ""),             \* 388
       S("unlock", "generation_state", 0, "none"),       \* 388
       S("goto", "", 13, ""),
       S("lock", "generation_state", 0, ""),             \* 361
       S("unlock", "generation_state", 0, "none"),       \* 361-363
       S("end", "", 0, "") >>

\* PoingModel::remove_selected_model (model.rs:391-419)
remove_selected_model ==
    << S("lock", "model_paths", 0, ""),                  \* 392
       S("if", "", 7, "selected_valid"),                 \* 395
       S("unlock", "model_paths", 0, "remove"),          \* 396-403, 408-411
       S("lock", "model_path", 0, ""),                   \* 404, 413
       S("unlock", "model_path", 0, "removed"),          \* 404-407, 413-416
       S("goto", "", 8, ""),
       S("unlock", "model_paths", 0, "none"),            \* 419
       S("end", "", 0, "") >>

\* PoingModel::select_model (model.rs:421-428)
select_model ==
    << S("lock", "model_paths", 0, ""),                  \* 422
       S("unlock", "model_paths", 0, "none"),            \* 422 (clone)
       S("if", "", 6, "index_valid"),                    \* 423
       S("lock", "model_path", 0, ""),                   \* 424
       S("unlock", "model_path", 0, "select"),           \* 424-426
       S("end", "", 0, "") >>

\* PoingModel::poll_shared_state (model.rs:99-155); loc.flag says whether
\* the state read is Complete
poll_shared_state ==
    << S("lock", "generation_state", 0, ""),             \* 100
       S("unlock", "generation_state", 0, "none"),
       S("lock", "progress", 0, ""),                     \* 101
       S("unlock", "progress", 0, "none"),
       S("if", "", 8, "flag"),                           \* 105, 126
       S("lock", "generated_audio", 0, ""),              \* 106, 127-130
       S("unlock", "generated_audio", 0, "none"),
       S("try", "host_tempo", 10, ""),                   \* 141
       S("unlock", "host_tempo", 0, "none"),             \* 142-145
       S("end", "", 0, "") >>

\* PoingModel::sync_bpm (model.rs:172-178)
sync_bpm ==
    << S("try", "host_tempo", 3, ""),                    \* 173
       S("unlock", "host_tempo", 0, "none"),             \* 174-177
       S("end", "", 0, "") >>

\* PoingModel::sync_duration_to_recording (model.rs:180-202)
sync_duration_to_recording ==
    << S("lock", "recorded_audio", 0, ""),               \* 181-186
       S("unlock", "recorded_audio", 0, "sample_count"), \* 186
       S("if", "", 8, "flag"),                           \* 187-189
       S("lock", "sample_rate", 0, ""),                  \* 190
       S("unlock", "sample_rate", 0, "none"),            \* 190
       S("try", "host_time_sig", 8, ""),                 \* 193-196
       S("unlock", "host_time_sig", 0, "none"),          \* 197-199
       S("end", "", 0, "") >>

\* PoingModel::start_generation (model.rs:204-249) for a non-empty prompt,
\* up to the spawn
start_generation ==
    << S("lock", "model_path", 0, ""),                   \* 224
       S("unlock", "model_path", 0, "read_model_path"),  \* 224
       S("if", "", 16, "flag"),
       S("try", "host_time_sig", 6, ""),                 \* 237, 160-166
       S("unlock", "host_time_sig", 0, "none"),
       S("lock", "prompt", 0, ""),                       \* 244
       S("unlock", "prompt", 0, "none"),
       S("lock", "generation_state", 0, ""),             \* 245
       S("unlock", "generation_state", 0, "none"),
       S("lock", "progress", 0, ""),                     \* 246
       S("unlock", "progress", 0, "none"),
       S("lock", "generated_audio", 0, ""),              \* 247
       S("unlock", "generated_audio", 0, "none"),
       S("do", "", 0, "spawn"),                          \* 249-251
       S("goto", "", 18, ""),
       S("lock", "generation_state", 0, ""),             \* 227
       S("unlock", "generation_state", 0, "none"),       \* 227-228
       S("end", "", 0, "") >>

\* The thread start_generation spawns (model.rs:251-295); loc.path is how
\* generate_from_text ends: ok, err or panic
worker ==
    << S("lock", "model_path", 0, ""),                   \* 253
       S("unlock", "model_path", 0, "read_model_path"),  \* 253
       S("if", "", 15, "flag"),                          \* 254
       S("lock", "progress", 0, ""),                     \* 262
       S("unlock", "progress", 0, "none"),               \* 262
       S("if", "", 12, "gen_ok"),                        \* 266
       S("lock", "generated_audio", 0, ""),              \* 267
       S("unlock", "generated_audio", 0, "none"),        \* 267
       S("lock", "generation_state", 0, ""),             \* 268
       S("unlock", "generation_state", 0, "none"),       \* 268
       S("goto", "", 17, ""),
       S("if", "", 15, "gen_panic"),                     \* 280
       S("try", "generation_state", 17, ""),             \* 289
       S("goto", "", 16, ""),
       S("lock", "generation_state", 0, ""),             \* 271, 276
       S("unlock", "generation_state", 0, "none"),       \* 272, 277, 290
       S("end", "", 0, "") >>                            \* 294

Program(name) ==
    CASE name = "initialize" -> initialize
      [] name = "process" -> process
      [] name = "toggle_recording" -> toggle_recording
      [] name = "handle_browse_result" -> handle_browse_result
      [] name = "remove_selected_model" -> remove_selected_model
      [] name = "select_model" -> select_model
      [] name = "poll_shared_state" -> poll_shared_state
      [] name = "sync_bpm" -> sync_bpm
      [] name = "sync_duration_to_recording" -> sync_duration_to_recording
      [] name = "start_generation" -> start_generation
      [] name = "worker" -> worker

\* The handlers each thread runs.
HandlersOf(t) ==
    CASE t = "host" -> {"initialize", "process"}
      [] t = "gui" -> {"toggle_recording", "handle_browse_result",
                       "remove_selected_model", "select_model",
                       "poll_shared_state", "sync_bpm",
                       "sync_duration_to_recording", "start_generation"}
      [] t = "worker" -> {}

\* The step a thread is about to take.
StepOf(t) == Program(th[t].prog)[th[t].i]

Busy(t) == th[t].prog # "idle"

\* The conditions the handlers branch on.
Cond(t, c) ==
    CASE c = "persisted_some" -> selected_model_path # "None"
      [] c = "is_recording" -> is_recording
      [] c = "was_recording" -> th[t].loc.flag
      [] c = "valid" -> ValidateModelDir(th[t].loc.path)
      [] c = "selected_valid" -> selected_model_index < Len(model_paths)
      [] c = "index_valid" -> th[t].loc.index < Len(model_paths)
      [] c = "flag" -> th[t].loc.flag
      [] c = "gen_ok" -> th[t].loc.path = "ok"
      [] c = "gen_panic" -> th[t].loc.path = "panic"

\* The state the statements of the handlers read and write.
Data(t) ==
    [model_paths |-> model_paths, model_path |-> model_path,
     index |-> selected_model_index, names |-> model_names,
     name |-> selected_model_name, is_recording |-> is_recording,
     recorded_audio |-> recorded_audio, ring_buffer |-> ring_buffer,
     persisted |-> selected_model_path, epoch |-> rec_epoch,
     published |-> rec_published, loc |-> th[t].loc]

\* What the statement under a guard, or a statement without one, does.
Effect(eff, d) ==
    CASE eff = "none" -> d
      \* initialize, 85-86
      [] eff = "restore" -> [d EXCEPT !.model_path = d.persisted]
      \* process, 116-121: the frame's left sample goes into the ring
      [] eff = "write_ring" ->
            [d EXCEPT !.ring_buffer = RingWrite(d.ring_buffer, <<d.epoch>>)]
      \* process, 125
      [] eff = "publish" ->
            [d EXCEPT !.recorded_audio = RingRead(d.ring_buffer),
                      !.published = IF d.is_recording THEN d.epoch ELSE 0]
      \* process, 132-135
      [] eff = "persist" ->
            IF d.persisted # d.model_path
            THEN [d EXCEPT !.persisted = d.model_path] ELSE d
      \* toggle_recording, 299-302
      [] eff = "flip" ->
            [d EXCEPT !.loc.flag = d.is_recording,
                      !.is_recording = ~d.is_recording,
                      !.epoch = IF d.is_recording THEN d.epoch ELSE d.epoch + 1]
      \* toggle_recording, 313
      [] eff = "clear" -> [d EXCEPT !.recorded_audio = <<>>, !.published = 0]
      \* handle_browse_result, 369-379
      [] eff = "push" ->
            LET paths == IF Contains(d.model_paths, d.loc.path) THEN d.model_paths
                         ELSE Append(d.model_paths, d.loc.path)
            IN  [d EXCEPT !.model_paths = paths,
                          !.loc.index = Position(paths, d.loc.path)]
      \* handle_browse_result, 382
      [] eff = "set_path" -> [d EXCEPT !.model_path = d.loc.path]
      \* handle_browse_result, 383-386
      [] eff = "names" ->
            LET names == paths_to_names(d.model_paths)
            IN  [d EXCEPT !.names = names, !.index = d.loc.index,
                          !.name = NameAt(names, d.loc.index)]
      \* remove_selected_model, 396-403 and 408-411
      [] eff = "remove" ->
            LET paths == Remove(d.model_paths, d.index)
            IN  [d EXCEPT !.model_paths = paths,
                          !.loc.index = Min(d.index, Len(paths) - 1),
                          !.loc.flag = paths = <<>>]
      \* remove_selected_model, 404-407 and 413-416
      [] eff = "removed" ->
            LET names == paths_to_names(d.model_paths)
            IN  IF d.loc.flag
                THEN [d EXCEPT !.model_path = "None", !.names = names,
                               !.index = 0, !.name = "No models loaded"]
                ELSE [d EXCEPT !.model_path = d.model_paths[d.loc.index + 1],
                               !.names = names, !.index = d.loc.index,
                               !.name = NameAt(names, d.loc.index)]
      \* select_model, 424-426
      [] eff = "select" ->
            [d EXCEPT !.model_path = d.model_paths[d.loc.index + 1],
                      !.index = d.loc.index,
                      !.name = NameAt(d.names, d.loc.index)]
      \* sync_duration_to_recording, 181-187
      [] eff = "sample_count" -> [d EXCEPT !.loc.flag = d.recorded_audio # <<>>]
      \* start_generation, 224 and the worker, 253-254
      [] eff = "read_model_path" -> [d EXCEPT !.loc.flag = d.model_path # "None"]

\* What a step of the plugin's threads leaves alone.
outside_plugin ==
    <<generate_vars, undelay_vars, caller_vars, guidance_vars, sampler_vars,
      ring_vars, scenario_vars, frontend, prompt, generation_state, progress,
      generated_audio, is_generating, was_generating, ui_pc, ticks, workers>>

data_vars ==
    <<model_paths, model_path, selected_model_index, model_names,
      selected_model_name, is_recording, recorded_audio, ring_buffer,
      selected_model_path, rec_epoch, rec_published>>

\* Thread t goes on to step i with the state d.
Continue(t, i, d) ==
    /\ th' = [th EXCEPT ![t].i = i, ![t].loc = d.loc]
    /\ model_paths' = d.model_paths
    /\ model_path' = d.model_path
    /\ selected_model_index' = d.index
    /\ model_names' = d.names
    /\ selected_model_name' = d.name
    /\ is_recording' = d.is_recording
    /\ recorded_audio' = d.recorded_audio
    /\ ring_buffer' = d.ring_buffer
    /\ selected_model_path' = d.persisted
    /\ rec_epoch' = d.epoch
    /\ rec_published' = d.published
    /\ UNCHANGED outside_plugin

\* Poing::default (lib.rs:24-47) beside a freshly opened editor.
PluginInit ==
    /\ GenerateInit /\ UndelayIdle /\ CallerInit /\ GuidanceIdle
    /\ SamplerIdle /\ RingIdle /\ ScenarioIdle
    /\ AppInit
    /\ frontend = "editor"
    /\ holder = [m \in Mutexes |-> "none"]
    /\ th = [t \in Threads |-> Resting]
    /\ is_recording = FALSE
    /\ recorded_audio = <<>>
    /\ ring_buffer = RingNew(PluginRingCapacity)
    /\ selected_model_path = model_path
    /\ rec_epoch = 0
    /\ rec_published = 0

\* The arguments of the handlers: the directory the browse dialog
\* returned, the entry picked in the dropdown, and whether the state polled
\* is Complete.
HandlerArgs(prog) ==
    CASE prog = "handle_browse_result" ->
            {[NoLoc EXCEPT !.path = p] : p \in {"a", "bad"}}
      [] prog = "select_model" -> {[NoLoc EXCEPT !.index = n] : n \in 0 .. 1}
      [] prog = "poll_shared_state" -> {[NoLoc EXCEPT !.flag = b] : b \in BOOLEAN}
      [] OTHER -> {NoLoc}

\* The host calls initialize or process; the editor takes an event off its
\* queue. start_generation returns at once while is_generating is set
\* (204-207), which here lasts as long as the spawned thread.
Begin(t, prog, arg) ==
    /\ ~Busy(t)
    /\ prog \in HandlersOf(t)
    /\ arg \in HandlerArgs(prog)
    /\ prog = "toggle_recording" /\ ~is_recording => rec_epoch < MaxRecordings
    /\ prog = "start_generation" => ~Busy("worker")
    /\ th' = [th EXCEPT ![t] = [prog |-> prog, i |-> 1, loc |-> arg]]
    /\ UNCHANGED <<holder, data_vars, outside_plugin>>

\* mutex.lock() returns once the mutex is free.
Lock(t) ==
    /\ Busy(t)
    /\ StepOf(t).op = "lock"
    /\ holder[StepOf(t).m] = "none"
    /\ holder' = [holder EXCEPT ![StepOf(t).m] = t]
    /\ Continue(t, th[t].i + 1, Data(t))

\* mutex.try_lock() returns Ok
TryLock(t) ==
    /\ Busy(t)
    /\ StepOf(t).op = "try"
    /\ holder[StepOf(t).m] = "none"
    /\ holder' = [holder EXCEPT ![StepOf(t).m] = t]
    /\ Continue(t, th[t].i + 1, Data(t))

\* mutex.try_lock() returns Err(WouldBlock): the block under it is skipped
TryLockBusy(t) ==
    /\ Busy(t)
    /\ StepOf(t).op = "try"
    /\ holder[StepOf(t).m] # "none"
    /\ UNCHANGED holder
    /\ Continue(t, StepOf(t).to, Data(t))

\* The statement under the guard is executed and the guard is dropped.
Unlock(t) ==
    /\ Busy(t)
    /\ StepOf(t).op = "unlock"
    /\ holder' = [holder EXCEPT ![StepOf(t).m] = "none"]
    /\ Continue(t, th[t].i + 1, Effect(StepOf(t).eff, Data(t)))

\* A statement that takes no mutex; std::thread::spawn (model.rs:251)
\* starts the worker on a generation that ends in one of three ways.
Do(t) ==
    /\ Busy(t)
    /\ StepOf(t).op = "do"
    /\ IF StepOf(t).eff = "spawn"
       THEN /\ \E outcome \in {"ok", "err", "panic"} :
                    th' = [th EXCEPT ![t].i = th[t].i + 1,
                                     !["worker"] =
                                        [prog |-> "worker", i |-> 1,
                                         loc |-> [NoLoc EXCEPT !.path = outcome]]]
            /\ UNCHANGED <<holder, data_vars, outside_plugin>>
       ELSE /\ UNCHANGED holder
            /\ Continue(t, th[t].i + 1, Effect(StepOf(t).eff, Data(t)))

\* if, else and the end of a block
Branch(t) ==
    /\ Busy(t)
    /\ StepOf(t).op \in {"if", "goto"}
    /\ UNCHANGED holder
    /\ Continue(t, IF StepOf(t).op = "goto" \/ ~Cond(t, StepOf(t).eff)
                   THEN StepOf(t).to ELSE th[t].i + 1,
                Data(t))

\* The handler returns.
End(t) ==
    /\ Busy(t)
    /\ StepOf(t).op = "end"
    /\ th' = [th EXCEPT ![t] = Resting]
    /\ UNCHANGED <<holder, data_vars, outside_plugin>>

\* The recording on its own: the Record button beside the host's calls.
RecordingHandlers == {"toggle_recording", "initialize", "process"}

RecordingNext ==
    \/ \E t \in Threads : \E prog \in HandlersOf(t) \cap RecordingHandlers :
            \E arg \in HandlerArgs(prog) : Begin(t, prog, arg)
    \/ \E t \in Threads : Lock(t)
    \/ \E t \in Threads : TryLock(t)
    \/ \E t \in Threads : TryLockBusy(t)
    \/ \E t \in Threads : Unlock(t)
    \/ \E t \in Threads : Do(t)
    \/ \E t \in Threads : Branch(t)
    \/ \E t \in Threads : End(t)

RecordingSpec == PluginInit /\ [][RecordingNext]_vars

\* The host's calls beside the handlers of the editor that take a mutex
\* process tries: recorded_audio, host_tempo, host_time_sig, model_path.
AudioHandlers ==
    {"initialize", "process", "toggle_recording", "sync_bpm",
     "sync_duration_to_recording", "select_model"}

AudioNext ==
    \/ \E t \in Threads : \E prog \in HandlersOf(t) \cap AudioHandlers :
            \E arg \in HandlerArgs(prog) : Begin(t, prog, arg)
    \/ \E t \in Threads : Lock(t)
    \/ \E t \in Threads : TryLock(t)
    \/ \E t \in Threads : TryLockBusy(t)
    \/ \E t \in Threads : Unlock(t)
    \/ \E t \in Threads : Do(t)
    \/ \E t \in Threads : Branch(t)
    \/ \E t \in Threads : End(t)

AudioSpec == PluginInit /\ [][AudioNext]_vars

\* A step of the host's thread.
HostStep ==
    \/ Lock("host") \/ TryLock("host") \/ TryLockBusy("host") \/ Unlock("host")
    \/ Do("host") \/ Branch("host") \/ End("host")

\* The host's thread is scheduled; the editor's thread need not be: it may
\* stay where it is for ever, with whatever mutex it holds.
AudioFairSpec == AudioSpec /\ WF_vars(HostStep)

\* The host's calls beside the editor's model list, its polling and a
\* generation with its thread, while nothing is recorded.
LockHandlers ==
    {"initialize", "process", "handle_browse_result", "remove_selected_model",
     "select_model", "poll_shared_state", "start_generation"}

LockNext ==
    \/ \E t \in Threads : \E prog \in HandlersOf(t) \cap LockHandlers :
            \E arg \in HandlerArgs(prog) : Begin(t, prog, arg)
    \/ \E t \in Threads : Lock(t)
    \/ \E t \in Threads : TryLock(t)
    \/ \E t \in Threads : TryLockBusy(t)
    \/ \E t \in Threads : Unlock(t)
    \/ \E t \in Threads : Do(t)
    \/ \E t \in Threads : Branch(t)
    \/ \E t \in Threads : End(t)

LockSpec == PluginInit /\ [][LockNext]_vars


(* ======================================================================= *)
(* Properties                                                              *)
(* ======================================================================= *)
\* The grid exists from the end of set-up until generate returns.
GridLive == pc \in {"loop", "decode"}

EventsOf(kind) == SelectSeq(events, LAMBDA e : e.ev = kind)
Last(q) == q[Len(q)]

\* C1 (mirror invariant): after initialisation and after any number of
\* completed steps, every conditional row r < NUM_CODEBOOKS equals the
\* unconditional row r + NUM_CODEBOOKS in every column.
C1_MirrorInvariant ==
    GridLive =>
        \A r \in 0 .. NUM_CODEBOOKS - 1, t \in 0 .. MAX_LENGTH - 1 :
            all_tokens[r][t] = all_tokens[r + NUM_CODEBOOKS][t]

\* Two steps done, with different tokens written into the two columns.
C1_Witness ==
    /\ pc = "loop" /\ step = 2
    /\ all_tokens[0][1] = 5 /\ all_tokens[NUM_CODEBOOKS][1] = 5
    /\ all_tokens[1][2] = 0 /\ all_tokens[1 + NUM_CODEBOOKS][2] = 0

\* C2 (delay activation): a cell (row, t) with t <= k, k = row mod
\* NUM_CODEBOOKS, always holds the padding id (column 0 the
\* beginning-of-sequence id, which is the same id); and a cell with t > k
\* holds, from the completion of step t-1 on, the token sampled for
\* codebook k at step t-1: the step that completes column t leaves that
\* token there, and every later step leaves the cell as it is.
C2_DelayActivation ==
    /\ [](GridLive =>
            \A r \in 0 .. 2 * NUM_CODEBOOKS - 1, t \in 0 .. MAX_LENGTH - 1 :
                /\ t <= r % NUM_CODEBOOKS => all_tokens[r][t] = PAD_TOKEN
                /\ t = 0 => all_tokens[r][t] = BOS_TOKEN)
    /\ [][(pc = "loop" /\ GridLive') =>
            \A r \in 0 .. 2 * NUM_CODEBOOKS - 1, t \in 1 .. MAX_LENGTH - 1 :
                (t > r % NUM_CODEBOOKS /\ t <= step') =>
                    all_tokens'[r][t] =
                        IF step' = step + 1 /\ t = step'
                        THEN sampled'[r % NUM_CODEBOOKS]
                        ELSE all_tokens[r][t]]_vars

\* Step 1 has completed: codebook 1 got its first token in column 2 while
\* its sample of step 0 was not written (column 1 is still padding), and
\* codebook 2 is still inactive although a token was sampled for it.
C2_Witness ==
    /\ pc = "loop" /\ step = 2
    /\ all_tokens[1][1] = PAD_TOKEN /\ all_tokens[1][2] = 5
    /\ sampled[2] = 5 /\ all_tokens[2][2] = PAD_TOKEN

\* C3 (write-once grid): step s assigns only cells of column s+1 and leaves
\* every other cell's value alone, so no cell is assigned more than once
\* and only cells of completed columns have been assigned.
C3_WriteOnce ==
    /\ [](GridLive =>
            \A r \in 0 .. 2 * NUM_CODEBOOKS - 1, c \in 0 .. MAX_LENGTH - 1 :
                /\ writes[r][c] <= 1
                /\ writes[r][c] = 1 => (1 <= c /\ c <= step))
    /\ [][(pc = "loop" /\ GridLive') =>
            \A r \in 0 .. 2 * NUM_CODEBOOKS - 1, c \in 0 .. MAX_LENGTH - 1 :
                c # step + 1 =>
                    /\ writes'[r][c] = writes[r][c]
                    /\ all_tokens'[r][c] = all_tokens[r][c]]_vars

\* The loop is over: the active cells were each assigned once, the
\* inactive ones never.
C3_Witness ==
    /\ pc = "decode"
    /\ writes[0][1] = 1 /\ writes[3][MAX_LENGTH - 1] = 1
    /\ writes[3][3] = 0 /\ writes[0][0] = 0
    /\ all_tokens[0][1] = 5 /\ all_tokens[0][2] = 0

\* C4 (loop termination): while no invocation has failed the decoder
\* invocations so far are those of steps 0, 1, ..., step-1 in this order,
\* the loop can always take its next step, and when it is left the model
\* has been invoked exactly MAX_LENGTH - 1 times and the notification just
\* emitted is the final 1.0.
C4_LoopTermination ==
    LET runs == EventsOf("decoder") IN
    /\ pc = "loop" =>
        /\ step \in 0 .. MAX_LENGTH - 1
        /\ Len(runs) = step
        /\ \A i \in 1 .. Len(runs) : runs[i].step = i - 1 /\ runs[i].ok
        /\ ENABLED Next
    /\ pc \in {"decode", "done"} =>
        /\ Len(runs) = MAX_LENGTH - 1
        /\ \A i \in 1 .. Len(runs) : runs[i].step = i - 1 /\ runs[i].ok
    /\ pc = "decode" =>
        /\ step = MAX_LENGTH - 1
        /\ Last(events).ev = "progress" /\ Last(events).num = Last(events).den

C4_Witness ==
    /\ pc = "done" /\ result = "Ok"
    /\ Len(EventsOf("decoder")) = MAX_LENGTH - 1

\* The output "present.<k>" of the decoder invocation of step s, for a
\* self-attention entry k: s + 1 timesteps, one appended per call.
SelfPresent(k, s) == [origin |-> "present", step |-> s, name |-> k, len |-> s + 1]

\* C5 (self-attention cache growth): the decoder call of step s receives
\* as self-attention cache the present self-attention output of step s-1
\* (the zero-length cache at step 0); after every completed step the
\* stored cache of every layer is that step's present output, so after n
\* completed steps its sequence length is n.
C5_SelfCacheGrowth ==
    /\ dec_in.step >= 0 =>
        \A l \in 0 .. NUM_LAYERS - 1, kv \in {"key", "value"} :
            LET k == <<l, "decoder", kv>> IN
            /\ dec_in.step = 0 =>
                dec_in.past[k].origin = "zeros" /\ dec_in.past[k].len = 0
            /\ dec_in.step > 0 => dec_in.past[k] = SelfPresent(k, dec_in.step - 1)
    /\ GridLive =>
        \A l \in 0 .. NUM_LAYERS - 1, kv \in {"key", "value"} :
            LET k == <<l, "decoder", kv>> IN
            /\ decoder_cache[k].len = step
            /\ step = 0 => decoder_cache[k].origin = "zeros"
            /\ step > 0 =>
                /\ dec_in.step = step - 1
                /\ decoder_cache[k] = dec_out[k]
                /\ decoder_cache[k] = SelfPresent(k, step - 1)

\* Three steps done: the call of step 2 got the present output of step 1.
C5_Witness ==
    /\ pc = "loop" /\ step = 3 /\ dec_in.step = 2
    /\ dec_in.past[<<1, "decoder", "value">>].step = 1
    /\ dec_in.past[<<1, "decoder", "value">>].len = 2
    /\ decoder_cache[<<1, "decoder", "value">>].len = 3

\* C6 (cross-attention cache fixed after step 0): the cross-attention cache
\* is assigned exactly once, from the present cross-attention outputs of
\* step 0; every step s >= 1 leaves it unchanged and passes exactly those
\* tensors to the model, whatever cross-attention outputs that step returns.
C6_CrossCacheFixed ==
    LET updates == EventsOf("encoder_cache") IN
    /\ GridLive =>
        \A l \in 0 .. NUM_LAYERS - 1, kv \in {"key", "value"} :
            LET k == <<l, "encoder", kv>> IN
            /\ step = 0 => encoder_cache[k].origin = "zeros" /\ updates = <<>>
            /\ step > 0 =>
                /\ encoder_cache[k].origin = "present"
                /\ encoder_cache[k].step = 0
                /\ encoder_cache[k].name = k
                /\ Len(updates) = 1 /\ updates[1].step = 0
    /\ dec_in.step >= 1 =>
        \A l \in 0 .. NUM_LAYERS - 1, kv \in {"key", "value"} :
            LET k == <<l, "encoder", kv>> IN
            /\ dec_in.past[k].origin = "present"
            /\ dec_in.past[k].step = 0
            /\ dec_in.past[k].name = k
    /\ Len(updates) <= 1

\* Step 2 returned cross-attention outputs of its own, and the cache still
\* holds those of step 0.
C6_Witness ==
    /\ pc = "loop" /\ step = 3
    /\ dec_out[<<0, "encoder", "key">>].step = 2
    /\ dec_in.past[<<0, "encoder", "key">>].step = 0
    /\ encoder_cache[<<0, "encoder", "key">>].step = 0
    /\ encoder_cache[<<0, "encoder", "key">>].origin = "present"

\* C7 (use_cache_branch): the flag passed at step s is false exactly when
\* s = 0, and true exactly when every cache tensor passed in that call is
\* an output of an earlier step of this call.
C7_UseCacheFlag ==
    dec_in.step >= 0 =>
        /\ dec_in.use_cache_branch = FALSE <=> dec_in.step = 0
        /\ dec_in.use_cache_branch <=>
            \A l \in 0 .. NUM_LAYERS - 1, f \in {"decoder", "encoder"},
               kv \in {"key", "value"} :
                /\ dec_in.past[<<l, f, kv>>].origin = "present"
                /\ dec_in.past[<<l, f, kv>>].step < dec_in.step

C7_Witness ==
    /\ dec_in.step = 1 /\ dec_in.use_cache_branch
    /\ dec_in.past[<<0, "decoder", "key">>].origin = "present"

\* C8 (input feedback): the input column of step 0 is the
\* beginning-of-sequence token in every row; that of a step s >= 1 is
\* column s of the grid, the column step s-1 wrote, in every row, so a row
\* whose codebook is not yet active at column s feeds the padding token.
\* The column prepared for the next step is the one just written.
C8_InputFeedback ==
    /\ dec_in.step = 0 =>
        \A r \in 0 .. 2 * NUM_CODEBOOKS - 1 : dec_in.input_ids[r] = BOS_TOKEN
    /\ (GridLive /\ dec_in.step >= 1) =>
        \A r \in 0 .. 2 * NUM_CODEBOOKS - 1 :
            /\ dec_in.input_ids[r] = all_tokens[r][dec_in.step]
            /\ dec_in.step <= r % NUM_CODEBOOKS => dec_in.input_ids[r] = PAD_TOKEN
    /\ (GridLive /\ step >= 1) =>
        \A r \in 0 .. 2 * NUM_CODEBOOKS - 1 :
            /\ next_tokens[r] = all_tokens[r][step]
            /\ step <= r % NUM_CODEBOOKS => next_tokens[r] = PAD_TOKEN

\* Step 1 was fed column 1: a sampled token for codebook 0, padding for
\* codebook 1 although a token had been sampled for it at step 0.
C8_Witness ==
    /\ pc = "loop" /\ step = 2 /\ dec_in.step = 1
    /\ dec_in.input_ids[0] = 5 /\ dec_in.input_ids[1] = PAD_TOKEN
    /\ dec_in.input_ids[NUM_CODEBOOKS] = 5
    /\ next_tokens[0] = 0 /\ next_tokens[1] = 5 /\ next_tokens[2] = PAD_TOKEN

\* C9 (undelay alignment): aligned_length = max_length - 1 -
\* (NUM_CODEBOOKS - 1), and for every codebook cb and every t below it
\* aligned[cb][t] is grid[cb][1 + cb + t] when that cell is not the padding
\* token and 0 when it is (aligned[cb][t] is the entry cb * aligned_length
\* + t of the flat output); a cell holding 100 * cb + t comes out as
\* 100 * cb + t.
C9_UndelayAlignment ==
    u_pc = "done" =>
        LET n == u_len - 1 - (NUM_CODEBOOKS - 1) IN
        /\ DOMAIN u_codes = 0 .. NUM_CODEBOOKS * n - 1
        /\ \A cb \in 0 .. NUM_CODEBOOKS - 1, t \in 0 .. n - 1 :
            /\ u_grid[cb][1 + cb + t] # PAD_TOKEN =>
                u_codes[cb * n + t] = u_grid[cb][1 + cb + t]
            /\ u_grid[cb][1 + cb + t] = PAD_TOKEN => u_codes[cb * n + t] = 0
            /\ u_grid[cb][1 + cb + t] = 100 * cb + t =>
                u_codes[cb * n + t] = 100 * cb + t

\* A grid of 7 columns (3 aligned timesteps) was undelayed: a token of
\* codebook 2 at t = 1 came through, a leftover padding cell of codebook 1
\* became 0.
C9_Witness ==
    /\ u_pc = "done" /\ u_len = 7
    /\ u_grid[2][4] = 201 /\ u_codes[2 * 3 + 1] = 201
    /\ u_grid[1][2] = PAD_TOKEN /\ u_codes[1 * 3 + 0] = 0
    /\ u_grid[3][6] = 302 /\ u_codes[3 * 3 + 2] = 302

\* p <= q for progress values num/den
ProgressLeq(p, q) == p.num * q.den <= q.num * p.den

\* C10 (progress sequence): the callback receives step / (MAX_LENGTH - 1)
\* once per completed step, for step = 0, 1, ... in this order, then on
\* loop completion exactly one 1.0; the sequence is non-decreasing and
\* every value lies in [0, 1].
C10_ProgressSequence ==
    LET p == EventsOf("progress") IN
    /\ Len(p) <= MAX_LENGTH
    /\ \A i \in 1 .. Len(p) :
        /\ 0 <= p[i].num /\ 0 < p[i].den /\ p[i].num <= p[i].den
        /\ i > 1 => ProgressLeq(p[i - 1], p[i])
        /\ i <= MAX_LENGTH - 1 => p[i].num * (MAX_LENGTH - 1) = (i - 1) * p[i].den
        /\ i = MAX_LENGTH => p[i].num = p[i].den
    /\ pc = "loop" => Len(p) = step
    /\ pc \in {"decode", "done"} => Len(p) = MAX_LENGTH

C10_Witness ==
    /\ pc = "decode"
    /\ Len(EventsOf("progress")) = MAX_LENGTH
    /\ EventsOf("progress")[2].num = 1
    /\ EventsOf("progress")[2].den = MAX_LENGTH - 1
    /\ Last(events).num = 1 /\ Last(events).den = 1

\* The positions in the event log of the events of the given kinds.
PositionsOf(kinds) == {i \in 1 .. Len(events) : events[i].ev \in kinds}

CacheUpdateKinds == {"decoder_cache", "encoder_cache"}

\* C11 as the specification words it (progress before the first cache
\* update): once the key/value cache has been updated, a progress
\* notification was delivered before that first update; and one is
\* delivered at completion.
C11_ProgressBeforeCacheUpdate ==
    /\ PositionsOf(CacheUpdateKinds) # {} =>
        \E i \in PositionsOf({"progress"}) :
            \A j \in PositionsOf(CacheUpdateKinds) : i < j
    /\ pc = "decode" => Last(events).ev = "progress"

\* C11 (progress and the cache), as the code has it: the callback runs at
\* the end of an iteration, so every progress notification of a step
\* comes after that step's cache updates and before those of the next
\* step, the first cache update precedes every notification, and when the
\* loop is left one more notification, of value 1.0, is delivered.
C11_ProgressAfterCacheUpdate ==
    LET prog == PositionsOf({"progress"})
        upd == PositionsOf(CacheUpdateKinds)
    IN  /\ \A i \in prog : \E j \in upd : j < i
        /\ \A i \in prog : events[i].num # events[i].den =>
            /\ \A j \in upd : events[j].step <= events[i].num <=> j < i
            /\ \E j \in upd : events[j].step = events[i].num
        /\ pc = "loop" /\ step > 0 => Last(events).ev = "progress"
        /\ pc = "decode" =>
            /\ Last(events).ev = "progress"
            /\ Last(events).num = Last(events).den
            /\ \A j \in upd : j < Len(events)

\* Two steps done: the first event after the first run is a cache update,
\* and the notification of step 1 lies behind that step's cache update.
C11_Witness ==
    /\ pc = "loop" /\ step = 2
    /\ events[3].ev = "decoder_cache" /\ events[3].step = 0
    /\ events[5].ev = "progress" /\ events[5].num = 0
    /\ Last(events).ev = "progress" /\ Last(events).num = 1
    /\ events[Len(events) - 1].ev = "decoder_cache"
    /\ events[Len(events) - 1].step = 1

\* The positions in the event log of the model invocations.
RunPositions == PositionsOf({"text_encoder", "decoder", "encodec_decode"})

\* C12 (failure aborts the call): when the text encoder, the sequence
\* model at any step, or the codec decoder fails, generate returns an
\* error carrying that failure, no waveform, and invokes no model
\* afterwards: a failed invocation is the last event of the call, and the
\* call has returned Err with that invocation as its cause exactly when
\* an invocation failed.
C12_FailureAborts ==
    /\ \A i \in RunPositions : ~events[i].ok =>
        /\ i = Len(events)
        /\ pc = "error"
        /\ result = "Err"
        /\ cause = events[i].ev
        /\ audio_codes_flat = <<>> /\ all_tokens = <<>>
    /\ result = "Err" <=> pc = "error"
    /\ pc = "error" => audio_codes_flat = <<>> /\ all_tokens = <<>>
    /\ result = "Ok" => \A i \in RunPositions : events[i].ok

\* The sequence model failed at step 2, after two good steps and their
\* progress notifications.
C12_Witness ==
    /\ pc = "error" /\ result = "Err" /\ cause = "decoder"
    /\ Last(events).ev = "decoder" /\ Last(events).step = 2 /\ ~Last(events).ok
    /\ Len(EventsOf("progress")) = 2
    /\ dec_in.step = 2

\* C13 (cancellation): once the signal has been raised, at loop counter
\* cancel_at, no further iteration runs (the iterations run are those
\* below cancel_at), every progress value delivered is below cancel_at /
\* (MAX_LENGTH - 1), no waveform is produced, and the call ends with the
\* outcome Cancelled, which is neither Ok nor Err.
C13_Cancellation ==
    cancel_at >= 0 =>
        /\ Len(EventsOf("decoder")) <= cancel_at
        /\ \A i \in PositionsOf({"progress"}) :
            events[i].num * (MAX_LENGTH - 1) < cancel_at * events[i].den
        /\ pc \notin {"decode", "done"}
        /\ result \notin {"Ok", "Err"}
        /\ pc # "loop" => result = "Cancelled"

\* C14 (empty prompt): on every path that starts a generation a prompt
\* that is empty or white space only is rejected before any model is
\* loaded or invoked and surfaced as a precondition error: no step starts
\* a worker for such a prompt, no worker holding one reaches the loading
\* of the models, and a Generate request made with one leaves the error
\* "Please enter a prompt" in generation_state and starts nothing.
C14_EmptyPromptRejected ==
    [][/\ \A w \in Workers :
            (workers[w].pc = "unborn" /\ workers'[w].pc # "unborn") =>
                ~IsEmpty(Trim(workers'[w].prompt))
       /\ \A w \in Workers :
            workers'[w].pc \in {"loading", "generating"} =>
                ~IsEmpty(Trim(workers'[w].prompt))
       /\ ((EditorStartGeneration \/ GuiStartGeneration)
                /\ IsEmpty(Trim(prompt))) =>
            /\ generation_state'.tag = "Error"
            /\ generation_state'.msg = "Please enter a prompt"
            /\ workers' = workers]_vars

\* The worker threads that were spawned and have not finished.
Running == {w \in Workers : workers[w].pc \notin {"unborn", "exited", "died"}}

\* The worker threads that have finished.
Finished == {w \in Workers : workers[w].pc \in {"exited", "died"}}

\* C15 (one generation at a time): whatever the UI events and however
\* they interleave with the workers, no worker thread is spawned while an
\* earlier one has not finished: at most one spawned worker is unfinished.
C15_OneGenerationAtATime == Cardinality(Running) <= 1

\* C16 (single terminal result): a worker that has finished, by returning
\* or by a panic, has assigned generation_state exactly once, to Complete
\* or to Error, no worker assigns it twice, and generation_state is not
\* Generating once every spawned worker has finished.
C16_SingleTerminalResult ==
    /\ \A w \in Workers : workers[w].sets <= 1
    /\ \A w \in Finished : workers[w].sets = 1
    /\ Running = {} => generation_state.tag # "Generating"

\* C17 (no partial result on error): whenever a generation that was
\* started has ended with generation_state = Error (the error was assigned
\* by a worker), generated_audio is None; in particular the waveform
\* published is never that of the attempt that failed.
C17_NoPartialResultOnError ==
    (generation_state.tag = "Error" /\ generation_state.by \in Workers) =>
        /\ generated_audio = 0
        /\ generated_audio # generation_state.by

\* C18 (column 0): right after the allocation of the grid (set-up done, no
\* step taken) column 0 holds the beginning-of-sequence token in all
\* 2 * NUM_CODEBOOKS rows and every other cell the padding token; in every
\* later state of the call column 0 still holds the beginning-of-sequence
\* token in every row and has never been assigned by the loop.
C18_BosColumn ==
    /\ (pc = "loop" /\ step = 0) =>
        \A r \in 0 .. 2 * NUM_CODEBOOKS - 1, c \in 0 .. MAX_LENGTH - 1 :
            all_tokens[r][c] = IF c = 0 THEN BOS_TOKEN ELSE PAD_TOKEN
    /\ GridLive =>
        /\ DOMAIN all_tokens = 0 .. 2 * NUM_CODEBOOKS - 1
        /\ \A r \in 0 .. 2 * NUM_CODEBOOKS - 1 :
            /\ all_tokens[r][0] = BOS_TOKEN
            /\ writes[r][0] = 0

\* The loop has run to its end, writing tokens into the other columns.
C18_Witness ==
    /\ pc = "decode" /\ step = MAX_LENGTH - 1
    /\ all_tokens[0][0] = BOS_TOKEN
    /\ all_tokens[2 * NUM_CODEBOOKS - 1][0] = BOS_TOKEN
    /\ all_tokens[0][1] = 5 /\ all_tokens[0][MAX_LENGTH - 1] = 0

\* C19 (fresh session per call): every call of generate, whatever calls
\* came before it, enters its loop at step 0 with a zero-length
\* self-attention and cross-attention cache for every layer, a freshly
\* initialised grid and input column, and nothing done yet but its own
\* text encoding; its first decoder invocation is given those zero-length
\* caches.
C19_FreshSession ==
    /\ (pc = "loop" /\ step = 0) =>
        /\ \A l \in 0 .. NUM_LAYERS - 1, kv \in {"key", "value"} :
            /\ decoder_cache[<<l, "decoder", kv>>].len = 0
            /\ decoder_cache[<<l, "decoder", kv>>].origin = "zeros"
            /\ encoder_cache[<<l, "encoder", kv>>].len = 0
            /\ encoder_cache[<<l, "encoder", kv>>].origin = "zeros"
        /\ \A r \in 0 .. 2 * NUM_CODEBOOKS - 1 :
            /\ next_tokens[r] = BOS_TOKEN
            /\ \A c \in 0 .. MAX_LENGTH - 1 :
                /\ all_tokens[r][c] = IF c = 0 THEN BOS_TOKEN ELSE PAD_TOKEN
                /\ writes[r][c] = 0
        /\ Len(events) = 1 /\ events[1].ev = "text_encoder"
        /\ dec_in.step = -1
    /\ pc = "loop" => step >= 0 /\ Len(EventsOf("decoder")) = step
    /\ dec_in.step = 0 =>
        /\ ~dec_in.use_cache_branch
        /\ \A l \in 0 .. NUM_LAYERS - 1, f \in {"decoder", "encoder"},
              kv \in {"key", "value"} :
            dec_in.past[<<l, f, kv>>].len = 0
        /\ \A r \in 0 .. 2 * NUM_CODEBOOKS - 1 : dec_in.input_ids[r] = BOS_TOKEN

\* A second call, made after an earlier one returned, has taken its first
\* step from zero-length caches.
C19_Witness ==
    /\ calls = 1 /\ pc = "loop" /\ step = 1
    /\ dec_in.step = 0
    /\ dec_in.past[<<0, "decoder", "key">>].len = 0
    /\ decoder_cache[<<0, "decoder", "key">>].len = 1

C21_TopKMembership ==
    \A j \in DOMAIN s_tokens :
        LET i == s_tokens[j]
            n == Cardinality(DOMAIN s_logits)
        IN  /\ 0 <= i /\ i < n
            /\ Cardinality({m \in DOMAIN s_logits : Greater(s_logits[m], s_logits[i])})
                   < Min(s_k, n)

C23_EndToEndScenario ==
    (/\ sc_pc = "done"
     /\ sc_max_length = 10
     /\ sc_num_codebooks = 2
     /\ sc_token = 5)
    => /\ DOMAIN sc_codes = 0 .. 2 * 8 - 1
       /\ \A i \in DOMAIN sc_codes : sc_codes[i] \in {5, 0}
       /\ \E i \in DOMAIN sc_codes : sc_codes[i] = 5

\* The scenario has run to the codec.
C23_Witness ==
    /\ sc_pc = "done"
    /\ sc_max_length = 10
    /\ sc_num_codebooks = 2
    /\ sc_token = 5
    /\ sc_step = 9
    /\ sc_codes[15] = 5

\* C24 (unconditional half is zero and fixed): the encoder hidden states and
\* the encoder attention mask given to the sequence model have batch size 2;
\* batch entry 0 is the conditional encoding or mask, batch entry 1 is all
\* zeros of the same shape; and every step of the loop passes exactly the
\* same two tensors.
C24_UncondZeroAndFixed ==
    /\ [](dec_in.step >= 0 =>
            LET h == dec_in.encoder_hidden_states
                m == dec_in.encoder_attention_mask
            IN  /\ Len(h) = 2
                /\ h[1].origin = "last_hidden_state"
                /\ h[2].origin = "zeros"
                /\ h[2].len = h[1].len
                /\ Len(m) = 2
                /\ Len(m[1]) = h[1].len
                /\ Len(m[2]) = Len(m[1])
                /\ \A i \in DOMAIN m[2] : m[2][i] = 0
                /\ \E i \in DOMAIN m[1] : m[1][i] # 0)
    /\ [][(dec_in.step >= 0 /\ dec_in'.step > dec_in.step) =>
            /\ dec_in'.encoder_hidden_states = dec_in.encoder_hidden_states
            /\ dec_in'.encoder_attention_mask = dec_in.encoder_attention_mask]_vars

\* The third invocation of a call with a prompt of two tokens.
C24_Witness ==
    /\ pc = "loop" /\ step = 3 /\ dec_in.step = 2
    /\ text_seq_len = 2
    /\ dec_in.encoder_attention_mask = <<<<1, 1>>, <<0, 0>>>>
    /\ dec_in.encoder_hidden_states[2] = [origin |-> "zeros", len |-> 2]

\* The last n elements of a sequence.
LastN(q, n) == SubSeq(q, Len(q) - n + 1, Len(q))

\* C25 (RingBuffer read returns the newest samples in order): after any
\* sequence of writes since creation or the last clear that wrote n samples
\* into a buffer of capacity c > 0, len() is min(n, c) and read() returns
\* exactly the last min(n, c) samples written, in the order written.
C25_RingReadNewest ==
    rb_pc = "live" =>
        LET n == Len(rb_written)
            c == RingCapacity(Ring)
        IN  /\ Ring.len = Min(n, c)
            /\ RingRead(Ring) = LastN(rb_written, Min(n, c))

\* Five samples went into a buffer of three, in several writes, and the
\* write position is inside the buffer.
C25_Witness ==
    /\ rb_pc = "live"
    /\ RingCapacity(Ring) = 3
    /\ rb_written = <<1, 2, 2, 1, 2>>
    /\ rb_write_pos = 2
    /\ RingRead(Ring) = <<2, 1, 2>>

\* C26 (RingBuffer clear resets to the empty buffer): after clear(), from
\* any state including a wrapped one, is_empty() holds and read() returns
\* the empty sequence, and any later sequence of writes yields the same
\* len() and read() as on a newly created buffer of the same capacity.
C26_RingClearResets ==
    (rb_pc = "live" /\ rb_cleared) =>
        /\ rb_written = <<>> => RingIsEmpty(Ring) /\ RingRead(Ring) = <<>>
        /\ RingCapacity(rb_fresh) = RingCapacity(Ring)
        /\ Ring.len = rb_fresh.len
        /\ RingRead(Ring) = RingRead(rb_fresh)

\* A buffer cleared when it had wrapped, written to since, still holding a
\* sample from before the clear.
C26_Witness ==
    /\ rb_pc = "live" /\ rb_cleared
    /\ RingCapacity(Ring) = 3
    /\ rb_written = <<1>>
    /\ rb_buffer[1] = 2 /\ rb_buffer[2] = 2
    /\ Ring.buffer # rb_fresh.buffer
    /\ RingRead(Ring) = <<1>>

\* C27 as the specification has it (write-through policy): at every step
\* the token sampled for a row is written into the grid column of that step
\* for every row, whether or not the cell is active under the delay pattern.
C27_WriteThrough ==
    (pc = "loop" /\ step >= 1) =>
        \A r \in 0 .. 2 * NUM_CODEBOOKS - 1 : all_tokens[r][step] = sampled[r]

\* C27 as the code has it: the step that completes column pos writes the
\* sampled token into the rows whose codebook is active (pos > r mod
\* NUM_CODEBOOKS) and skips the others, whose cells keep the padding id
\* although a token was sampled for them; the skipped rows feed the padding
\* id to the next step.
C27_WriteOnlyActive ==
    (pc = "loop" /\ step >= 1) =>
        \A r \in 0 .. 2 * NUM_CODEBOOKS - 1 :
            /\ step > r % NUM_CODEBOOKS =>
                /\ all_tokens[r][step] = sampled[r]
                /\ writes[r][step] = 1
            /\ step <= r % NUM_CODEBOOKS =>
                /\ all_tokens[r][step] = PAD_TOKEN
                /\ writes[r][step] = 0
                /\ sampled[r] # PAD_TOKEN
            /\ next_tokens[r] = all_tokens[r][step]

\* Step 0 has sampled 5 for the last codebook and not written it.
C27_Witness ==
    /\ pc = "loop" /\ step = 1
    /\ sampled[NUM_CODEBOOKS - 1] = 5
    /\ all_tokens[NUM_CODEBOOKS - 1][1] = PAD_TOKEN
    /\ next_tokens[NUM_CODEBOOKS - 1] = PAD_TOKEN
    /\ all_tokens[0][1] = sampled[0]

\* The model invocations of the call so far, in order.
RunsOf(log) ==
    SelectSeq(log, LAMBDA e : e.ev \in {"text_encoder", "decoder", "encodec_decode"})

\* C28 (order of model invocations in a successful call): the text encoder
\* is invoked exactly once and before the first sequence-model invocation;
\* the sequence model is invoked MAX_LENGTH - 1 times, one after another in
\* step order; the codec decoder is invoked exactly once, after the last
\* sequence-model invocation and after undelay; and the invocations of a
\* call never overlap: each begins when the one before it has returned.
C28_InvocationOrder ==
    /\ [](LET runs == RunsOf(events) IN
            /\ \A i \in DOMAIN runs :
                /\ runs[i].ev = "text_encoder" <=> i = 1
                /\ runs[i].ev = "decoder" => runs[i].step = i - 2
                /\ runs[i].ev = "encodec_decode" => i = MAX_LENGTH + 1
                /\ i < Len(runs) => runs[i].ok
            /\ result = "Ok" =>
                /\ Len(runs) = MAX_LENGTH + 1
                /\ runs[1].ev = "text_encoder"
                /\ \A s \in 0 .. MAX_LENGTH - 2 :
                    runs[s + 2].ev = "decoder" /\ runs[s + 2].step = s
                /\ runs[MAX_LENGTH + 1].ev = "encodec_decode"
                /\ \A i \in DOMAIN runs : runs[i].ok
            /\ pc = "decode" =>
                /\ Len(runs) = MAX_LENGTH
                /\ DOMAIN audio_codes_flat =
                       0 .. NUM_CODEBOOKS * (MAX_LENGTH - NUM_CODEBOOKS) - 1)
    /\ [][/\ Len(RunsOf(events')) <= Len(RunsOf(events)) + 1
          /\ Len(RunsOf(events')) = Len(RunsOf(events)) + 1 =>
                /\ SubSeq(events', 1, Len(events)) = events
                /\ events'[Len(events) + 1].ev
                       \in {"text_encoder", "decoder", "encodec_decode"}]_vars

\* A call has returned Ok after all its invocations.
C28_Witness ==
    /\ pc = "done" /\ result = "Ok"
    /\ Len(RunsOf(events)) = MAX_LENGTH + 1
    /\ RunsOf(events)[MAX_LENGTH].step = MAX_LENGTH - 2
    /\ Last(events).ev = "encodec_decode"

\* C29 (undelay reads only active, in-bounds cells): with max_length >=
\* num_codebooks + 1, for every codebook cb and every t < aligned_length the
\* source column 1 + cb + t satisfies cb < 1 + cb + t <= max_length - 1:
\* undelay never reads column 0 or a cell at or before the codebook's
\* activation boundary, never reads out of bounds, and its bounds guard
\* skips no cell, so that it reads aligned_length cells of each codebook.
C29_UndelayReadsActive ==
    u_pc \in {"input", "done"} =>
        /\ u_len >= NUM_CODEBOOKS + 1
        /\ \A cell \in ReadCells(u_len) :
            /\ cell[1] < cell[2]
            /\ cell[2] # 0
            /\ cell[2] <= u_len - 1
            /\ cell[2] < u_len
            /\ cell[2] \in DOMAIN u_grid[cell[1]]
        /\ \A cb \in 0 .. NUM_CODEBOOKS - 1 :
            Cardinality({cell \in ReadCells(u_len) : cell[1] = cb})
                = u_len - NUM_CODEBOOKS
        /\ u_pc = "done" =>
            DOMAIN u_codes = 0 .. NUM_CODEBOOKS * (u_len - NUM_CODEBOOKS) - 1

\* Undelay has run on the longest grid: the last codebook's last read is
\* the last column.
C29_Witness ==
    /\ u_pc = "done"
    /\ u_len = MaxUndelayLen
    /\ <<NUM_CODEBOOKS - 1, u_len - 1>> \in ReadCells(u_len)
    /\ <<0, 1>> \in ReadCells(u_len)
    /\ u_codes[NUM_CODEBOOKS * (u_len - NUM_CODEBOOKS) - 1] # 0

OnePositions ==
    {i \in DOMAIN events : events[i].ev = "progress" /\ events[i].num = events[i].den}

\* C31 as stated (progress 1.0 implies success): when the progress callback
\* has received 1.0, no model invocation of the call remains to be made,
\* and the call returns a waveform, never an error.
C31_ProgressOneImpliesSuccess ==
    OnePositions # {} =>
        /\ result # "Err"
        /\ \A i \in OnePositions, j \in DOMAIN events :
            j > i => events[j].ev \notin {"text_encoder", "decoder", "encodec_decode"}

\* C31 as the code has it: when the callback has received 1.0, every
\* invocation of the sequence model has been made and has succeeded; the run
\* of the codec decoder is still to come, and the call returns a waveform
\* if that run succeeds and the codec's error if it fails.
C31_ProgressOneThenCodec ==
    OnePositions # {} =>
        /\ Cardinality(OnePositions) = 1
        /\ pc \in {"decode", "done", "error"}
        /\ \A i \in OnePositions :
            /\ Len(SelectSeq(SubSeq(events, 1, i),
                             LAMBDA e : e.ev = "decoder" /\ e.ok)) = MAX_LENGTH - 1
            /\ \A j \in 1 .. i : events[j].ok
            /\ Len(events) <= i + 1
            /\ Len(events) = i + 1 => events[i + 1].ev = "encodec_decode"
            /\ Len(events) = i <=> pc = "decode"
        /\ pc = "done" => result = "Ok" /\ Last(events).ok
        /\ pc = "error" => result = "Err" /\ cause = "encodec_decode" /\ ~Last(events).ok

\* A call told its callback 1.0 and then returned the codec's error.
C31_Witness ==
    /\ pc = "error" /\ result = "Err" /\ cause = "encodec_decode"
    /\ OnePositions = {Len(events) - 1}
    /\ Last(events).ev = "encodec_decode"

\* C32 (Complete implies audio): in every reachable state, under any
\* interleaving of the UI thread and the worker threads, generation_state
\* being Complete implies that generated_audio holds a waveform.
C32_CompleteImpliesAudio ==
    generation_state.tag = "Complete" => generated_audio # 0

\* C33 (model selection consistency): in the editor, through
\* BrowseModelResult, RemoveModel and SelectModel and after the editor is
\* closed and reopened on the same SharedState, model_path is None exactly
\* when model_paths is empty, and otherwise model_path is
\* model_paths[selected_model_index] and selected_model_name is the name
\* of that entry.
C33_SelectionConsistent ==
    frontend = "editor" =>
        /\ model_path = "None" <=> model_paths = <<>>
        /\ model_paths # <<>> =>
            /\ selected_model_index < Len(model_paths)
            /\ model_path = model_paths[selected_model_index + 1]
            /\ selected_model_name = FileName(model_paths[selected_model_index + 1])

\* C34 (a restarted recording starts empty): after recording was stopped
\* and started again through toggle_recording, every recorded_audio
\* snapshot published while the new recording is active holds only samples
\* captured since the restart, and at most the ring's capacity of them.
C34_RestartStartsEmpty ==
    (is_recording /\ rec_epoch >= 2 /\ rec_published = rec_epoch) =>
        /\ \A i \in DOMAIN recorded_audio : recorded_audio[i] = rec_epoch
        /\ Len(recorded_audio) <= RingCapacity(ring_buffer)

InProcess == th["host"].prog = "process"

\* C35 (the audio thread never blocks): process takes every mutex of
\* SharedState and of the persisted parameters with try_lock only, so a
\* call of process always has a step to take and comes to its end whatever
\* mutexes the other threads hold, for however long; where a mutex is
\* taken, the update under it is skipped and nothing is stored.
C35_AudioNeverBlocks ==
    /\ [](InProcess => StepOf("host").op # "lock")
    /\ [](InProcess => ENABLED HostStep)
    /\ [][(InProcess /\ StepOf("host").op = "try"
            /\ holder[StepOf("host").m] # "none" /\ th'["host"] # th["host"])
          => /\ th'["host"].i = StepOf("host").to
             /\ th'["host"].prog = "process"
             /\ UNCHANGED <<holder, data_vars>>]_vars
    /\ (InProcess ~> ~InProcess)

\* process, while recording, has passed the snapshot because the editor
\* holds recorded_audio: the ring is ahead of the shared copy.
C35_Witness ==
    /\ InProcess /\ th["host"].i = 9
    /\ holder["recorded_audio"] = "gui"
    /\ is_recording
    /\ ring_buffer.len > 0
    /\ recorded_audio # RingRead(ring_buffer)

\* Thread t is inside mutex.lock(), and the mutex is taken.
Waiting(t) ==
    Busy(t) /\ StepOf(t).op = "lock" /\ holder[StepOf(t).m] # "none"

HeldBy(t) == {m \in Mutexes : holder[m] = t}

\* The thread t waits for, the one after it, and so on.
RECURSIVE Blockers(_, _)
Blockers(t, n) ==
    IF n = 0 \/ ~Waiting(t) THEN {}
    ELSE {holder[StepOf(t).m]} \cup Blockers(holder[StepOf(t).m], n - 1)

\* C36 (no deadlock on shared state): among the UI thread, the host's
\* initialize and process and the generation thread, no thread waits for a
\* mutex it holds itself and no threads wait for each other in a circle:
\* whoever is waited for can go on. The one blocking lock() taken while
\* another mutex is held is initialize's lock of model_path under
\* selected_model_path, and no thread waits for selected_model_path while
\* it holds model_path.
C36_NoDeadlock ==
    /\ \A t \in Threads :
        /\ Waiting(t) => holder[StepOf(t).m] # t
        /\ Waiting(t) => \E u \in Blockers(t, Cardinality(Threads)) : ~Waiting(u)
        /\ t \notin Blockers(t, Cardinality(Threads))
        /\ (Busy(t) /\ StepOf(t).op = "lock" /\ HeldBy(t) # {}) =>
                /\ t = "host" /\ th[t].prog = "initialize"
                /\ HeldBy(t) = {"selected_model_path"}
                /\ StepOf(t).m = "model_path"
    /\ ~\E t \in Threads :
        /\ Busy(t) /\ StepOf(t).op = "lock" /\ StepOf(t).m = "selected_model_path"
        /\ "model_path" \in HeldBy(t)

\* initialize holds selected_model_path and waits for model_path, which
\* the generation thread holds while the UI thread waits for it too.
C36_Witness ==
    /\ th["host"].prog = "initialize" /\ Waiting("host")
    /\ HeldBy("host") = {"selected_model_path"}
    /\ holder["model_path"] = "worker"
    /\ Waiting("gui") /\ StepOf("gui").m = "model_path"

\* C37 (the ring buffer's shape): for a RingBuffer of capacity c > 0, after
\* any writes and clears, 0 <= write_pos < c, 0 <= len <= c,
\* write_pos = len whenever len < c, and the capacity never changes.
C37_RingStructure ==
    /\ [](rb_pc = "live" =>
            /\ RingCapacity(Ring) > 0
            /\ 0 <= rb_write_pos /\ rb_write_pos < RingCapacity(Ring)
            /\ 0 <= rb_len /\ rb_len <= RingCapacity(Ring)
            /\ rb_len < RingCapacity(Ring) => rb_write_pos = rb_len
            /\ DOMAIN rb_buffer = 0 .. RingCapacity(Ring) - 1)
    /\ [][rb_pc = "live" => DOMAIN rb_buffer' = DOMAIN rb_buffer]_vars

\* A buffer that was filled past its capacity, cleared and written again:
\* it is partly full over the samples of before.
C37_Witness ==
    /\ rb_pc = "live" /\ rb_cleared
    /\ 0 < rb_len /\ rb_len < RingCapacity(Ring)
    /\ rb_write_pos = rb_len
    /\ rb_buffer[RingCapacity(Ring) - 1] # 0

====
